---- MODULE Spec2Model ----
(***************************************************************************)
(* fibr: a model of the version 6 interpreter (reader, compiler, threaded  *)
(* evaluator and REPL loop).                                               *)
(*                                                                         *)
(* Conventions.  Characters are their ASCII codes, names are sequences of  *)
(* codes (so that strcmp is the byte-wise comparison of the code).         *)
(* Pointers into the pools of struct vm are 0-based indices, as in the C   *)
(* code (vm->ops + i is the index i), and -1 is the NULL pointer.          *)
(* A failed assert() and every undefined behaviour that ends the process   *)
(* (a write through NULL, a write outside a pool) is recorded in the field *)
(* fault and stops the program.                                            *)
(***************************************************************************)
EXTENDS Integers, Sequences, FiniteSets, TLC

(***************************************************************************)
(* Program constants.                                                      *)
(***************************************************************************)
MAX_ENV_SIZE == 64
MAX_FORM_COUNT == 512
MAX_FRAME_COUNT == 64
MAX_FUNC_COUNT == 64
MAX_NAME_LENGTH == 64
MAX_OP_COUNT == 1024
MAX_REG_COUNT == 64
MAX_SCOPE_COUNT == 8
MAX_STACK_SIZE == 64
MAX_STATE_COUNT == 64
INT32_MAX == 2147483647
UINT16_MOD == 65536

(***************************************************************************)
(* Bounds of the model.                                                    *)
(***************************************************************************)
\* the number of lines the user types in one session
MaxLines == 2
\* the number of literals of the longest line typed: two such lines fill an
\* operand stack
MaxPush == 33
\* the longest run of NOPs in a program made of NOPs and a STOP
MaxNops == 4
\* the number of ops eval is followed through in such a program
MaxSteps == 16
MaxTurns == 12

NULL == -1
NoFault == "none"

(***************************************************************************)
(* Names (char[]), as ASCII codes.                                         *)
(***************************************************************************)
N_plus == <<43>>
N_minus == <<45>>
N_equal == <<61>>
N_us == <<95>>
N_Bool == <<66, 111, 111, 108>>
N_F == <<70>>
N_Func == <<70, 117, 110, 99>>
N_Int == <<73, 110, 116>>
N_Macro == <<77, 97, 99, 114, 111>>
N_Meta == <<77, 101, 116, 97>>
N_T == <<84>>
N_debug == <<100, 101, 98, 117, 103>>
N_func == <<102, 117, 110, 99>>
N_if == <<105, 102>>

\* strcmp(a, b): negative, zero or positive
RECURSIVE strcmp(_, _)
strcmp(a, b) ==
  IF a = <<>> /\ b = <<>> THEN 0
  ELSE IF a = <<>> THEN -1
  ELSE IF b = <<>> THEN 1
  ELSE IF Head(a) # Head(b) THEN Head(a) - Head(b)
  ELSE strcmp(Tail(a), Tail(b))

(***************************************************************************)
(* Values: struct val {type; union}.  The payload is an integer: as_int,   *)
(* as_bool (0/1), as_meta (the type's id), as_func (a function reference), *)
(* as_macro (the macro's id).                                              *)
(***************************************************************************)
Val(t, v) == [type |-> t, v |-> v]
NullVal == Val("NULL", 0)
IntVal(i) == Val("Int", i)
BoolVal(b) == Val("Bool", IF b THEN 1 ELSE 0)

\* as_meta payloads
TY_META == 0
TY_BOOL == 1
TY_INT == 2
TY_FUNC == 3
TY_MACRO == 4

\* function references: the built-in functions are objects of main, the
\* user's functions are vm->funcs + i
F_ADD == -2
F_DEBUG == -3
F_SUB == -4

\* macro references
M_EQUAL == 0
M_FUNC == 1
M_IF == 2
M_NOP == 3

\* int_t arithmetic of the build: 32-bit two's-complement wrap-around
Add32(a, b) ==
  IF a >= 0 /\ b >= 0 /\ a > INT32_MAX - b
    THEN ((a - INT32_MAX) - 1) + ((b - INT32_MAX) - 1)
  ELSE IF a < 0 /\ b < 0 /\ a < ((0 - INT32_MAX) - 1) - b
    THEN ((a + INT32_MAX) + 1) + ((b + INT32_MAX) + 1)
  ELSE a + b

Neg32(a) == IF a = (0 - INT32_MAX) - 1 THEN a ELSE 0 - a

Sub32(a, b) ==
  IF b = (0 - INT32_MAX) - 1
    THEN (IF a >= 0 THEN (a - INT32_MAX) - 1 ELSE (a + INT32_MAX) + 1)
  ELSE Add32(a, 0 - b)

\* v *= 10 in int_t
Twice(v) == Add32(v, v)
Mul10(v) == Add32(Twice(Twice(Twice(v))), Twice(v))

(***************************************************************************)
(* Type methods.                                                           *)
(***************************************************************************)
\* is_true: default_true, bool_true, int_true
val_true(v) ==
  CASE v.type = "Bool" -> v.v # 0
    [] v.type = "Int" -> v.v # 0
    [] OTHER -> TRUE

\* methods.equal is NULL for Meta, Func and Macro (val_equal asserts it)
HasEqual(t) == t \in {"Bool", "Int"}

\* The results val_equal(x, y) can give: x's type compares its own member
\* of the union; when y has another type that member of y was never
\* written, and the comparison reads whatever bytes lie there.
val_equal(x, y) ==
  IF x.type = y.type THEN {x.v = y.v} ELSE BOOLEAN

\* methods.lit: default_lit returns the value, func_val_lit and macro_lit
\* return NULL
HasLit(v) == v.type \notin {"Func", "Macro"}

(***************************************************************************)
(* Environments: items[] in allocation order and the list `order`, kept    *)
(* as the indices of the items in list order.                              *)
(***************************************************************************)
EmptyEnv == [items |-> <<>>, order |-> <<>>]

\* an env_find that stops at the first greater name only (< 0 for <= 0): the
\* fault C22 is checked against
env_find_greater(env, name) ==
  LET hits == {k \in 1..Len(env.order) :
                 strcmp(name, env.items[env.order[k]].name) < 0}
  IN IF hits = {} THEN 0 ELSE CHOOSE k \in hits : \A j \in hits : k <= j

\* env_find: the position in `order` of the first item whose name is not
\* less than `name`; 0 stands for &self->order (the end of the list)
env_find(env, name) ==
  LET hits == {k \in 1..Len(env.order) :
                 strcmp(name, env.items[env.order[k]].name) <= 0}
  IN IF hits = {} THEN 0 ELSE CHOOSE k \in hits : \A j \in hits : k <= j

InsertAt(s, k, e) ==
  IF k = 0 THEN Append(s, e)
  ELSE SubSeq(s, 1, k - 1) \o <<e>> \o SubSeq(s, k, Len(s))

\* env_set: [env, slot, fault]; slot is the index of the new item in
\* items[] (1-based), 0 is NULL
env_set(env, name) ==
  LET found == env_find(env, name)
  IN IF found # 0 /\ strcmp(env.items[env.order[found]].name, name) = 0
       THEN [env |-> env, slot |-> 0, fault |-> NoFault]
     ELSE IF Len(env.items) >= MAX_ENV_SIZE
       THEN [env |-> env, slot |-> 0, fault |-> "assert env_set"]
     ELSE [env |-> [items |-> Append(env.items, [name |-> name, val |-> NullVal]),
                    order |-> InsertAt(env.order, found, Len(env.items) + 1)],
           slot |-> Len(env.items) + 1,
           fault |-> NoFault]

\* env_get: [slot, fault]; the item found is returned whatever its name
env_get(env, name) ==
  LET found == env_find(env, name)
  IN IF found = 0
       THEN [slot |-> 0, fault |-> "assert env_get"]
       ELSE [slot |-> env.order[found], fault |-> NoFault]

(***************************************************************************)
(* The character source: stdin.  buf holds the characters typed and not    *)
(* yet read, closed says that the input has ended, eofind is the stream's  *)
(* end-of-file indicator (feof).  blocked records that fgetc had to wait   *)
(* for characters that were not typed yet.                                 *)
(***************************************************************************)
EOF == -1

Stream(buf, closed) ==
  [buf |-> buf, closed |-> closed, eofind |-> FALSE, blocked |-> FALSE, back |-> 0]

\* fgetc assigned to a char: [c, s]
fgetc(s) ==
  IF s.buf # <<>>
    THEN [c |-> Head(s.buf), s |-> [s EXCEPT !.buf = Tail(s.buf), !.back = 0]]
  ELSE IF s.closed THEN [c |-> EOF, s |-> [s EXCEPT !.eofind = TRUE, !.back = 0]]
  ELSE [c |-> EOF, s |-> [s EXCEPT !.blocked = TRUE]]

\* an ungetc with room for one character, which fails when it follows
\* another with no read between: the fault C30 is checked against
ungetc_once(c, s) ==
  IF c = EOF \/ s.back >= 1 THEN s
  ELSE [s EXCEPT !.buf = <<c>> \o s.buf, !.eofind = FALSE, !.back = 1]

\* ungetc: pushing EOF back fails and leaves the stream as it is.  read_int
\* pushes two characters back in a row; the C library keeps both, as the
\* libraries in use do, though the standard promises room for one only.
\* back counts the characters pushed back since the last read.
ungetc(c, s) ==
  IF c = EOF THEN s
  ELSE [s EXCEPT !.buf = <<c>> \o s.buf, !.eofind = FALSE, !.back = @ + 1]

isspace(c) == c \in {9, 10, 11, 12, 13, 32}
isdigit(c) == c \in 48..57

(***************************************************************************)
(* Positions and forms.                                                    *)
(***************************************************************************)
Pos(line, column) == [source |-> "repl", line |-> line, column |-> column]

\* pos->column++ and pos->line++ on uint16_t
IncColumn(pos) == [pos EXCEPT !.column = (pos.column + 1) % UINT16_MOD]
NewLine(pos) == [pos EXCEPT !.line = (pos.line + 1) % UINT16_MOD, !.column = 0]

Form(type, pos) ==
  [type |-> type, pos |-> pos, name |-> <<>>, val |-> NullVal, items |-> <<>>]

(***************************************************************************)
(* Readers.  The reader state R is [in, pos, form_count, fault]; a reader  *)
(* returns [res, R, out] where out is the list it appended its form to.    *)
(***************************************************************************)
NoError == [pos |-> Pos(0, 0), msg |-> "", name |-> <<>>, n |-> 0]

\* error(vm, pos, fmt, ...): the buffer holds
\* "Error in <source>, line <line> column <column>: <msg>[: <name>][ <n>]"
Error(pos, msg, name, n) == [pos |-> pos, msg |-> msg, name |-> name, n |-> n]

RState(in, pos, form_count, error) ==
  [in |-> in, pos |-> pos, form_count |-> form_count, error |-> error,
   fault |-> NoFault]

RRes(res, R, out) == [res |-> res, R |-> R, out |-> out]

\* new_form: vm->forms + vm->form_count++, with no check of the capacity
new_form(R, form, out) ==
  IF R.form_count < 0 \/ R.form_count >= MAX_FORM_COUNT
    THEN RRes("READ_OK", [R EXCEPT !.fault = "ub new_form"], out)
    ELSE RRes("READ_OK", [R EXCEPT !.form_count = R.form_count + 1],
              Append(out, form))

RECURSIVE ws_loop(_)
ws_loop(R) ==
  LET g == fgetc(R.in)
  IN IF g.s.blocked THEN [R EXCEPT !.in = g.s]
     ELSE IF g.c = 0 THEN [R EXCEPT !.in = g.s]
     ELSE IF g.c \in {32, 9}
       THEN ws_loop([R EXCEPT !.in = g.s, !.pos = IncColumn(R.pos)])
     ELSE IF g.c = 10
       THEN ws_loop([R EXCEPT !.in = g.s, !.pos = NewLine(R.pos)])
     ELSE [R EXCEPT !.in = ungetc(g.c, g.s)]

read_ws(R, out) == RRes("READ_NULL", ws_loop(R), out)

\* the digit loop of read_int on l = [R, v], v the value read so far
RECURSIVE int_loop(_)
int_loop(l) ==
  LET g == fgetc(l.R.in)
  IN IF g.s.blocked \/ g.c = 0 THEN [l EXCEPT !.R.in = g.s]
     ELSE IF ~isdigit(g.c) THEN [l EXCEPT !.R.in = ungetc(g.c, g.s)]
     ELSE int_loop([R |-> [l.R EXCEPT !.in = g.s, !.pos = IncColumn(l.R.pos)],
                    v |-> Add32(Mul10(l.v), g.c - 48)])

read_int(R, out) ==
  LET fpos == R.pos
      \* after the digit loop l
      lit(neg, l) ==
        IF l.R.pos.column = fpos.column THEN RRes("READ_NULL", l.R, out)
        ELSE new_form(l.R,
                      [Form("LIT", fpos) EXCEPT
                         !.val = IntVal(IF neg THEN Neg32(l.v) ELSE l.v)],
                      out)
      \* c == '-': g2 is the character after it
      sign(g2) ==
        IF g2.s.blocked THEN RRes("READ_NULL", [R EXCEPT !.in = g2.s], out)
        ELSE IF ~isdigit(g2.c)
          THEN RRes("READ_NULL",
                    [R EXCEPT !.in = ungetc(45, ungetc(g2.c, g2.s))], out)
        ELSE lit(TRUE, int_loop([R |-> [R EXCEPT !.in = ungetc(g2.c, g2.s),
                                                  !.pos = IncColumn(R.pos)],
                                 v |-> 0]))
      first(g) ==
        IF g.s.blocked \/ g.c = 0 THEN RRes("READ_NULL", [R EXCEPT !.in = g.s], out)
        ELSE IF g.c = 45 THEN sign(fgetc(g.s))
        ELSE lit(FALSE, int_loop([R |-> [R EXCEPT !.in = ungetc(g.c, g.s)],
                                  v |-> 0]))
  IN first(fgetc(R.in))

read_semi(R, out) ==
  LET first(g) ==
        IF g.s.blocked \/ g.c = 0 THEN RRes("READ_NULL", [R EXCEPT !.in = g.s], out)
        ELSE IF g.c # 59
          THEN RRes("READ_NULL", [R EXCEPT !.in = ungetc(g.c, g.s)], out)
        ELSE new_form([R EXCEPT !.in = g.s, !.pos = IncColumn(R.pos)],
                      Form("SEMI", R.pos), out)
  IN first(fgetc(R.in))

\* the loop of read_id: [R, name]
RECURSIVE id_loop(_, _)
id_loop(R, name) ==
  LET g == fgetc(R.in)
  IN IF g.s.blocked \/ g.c = 0 THEN [R |-> [R EXCEPT !.in = g.s], name |-> name]
     ELSE IF Len(name) >= MAX_NAME_LENGTH
       THEN [R |-> [R EXCEPT !.in = g.s, !.fault = "assert read_id"], name |-> name]
     \* at the end of the input every fgetc gives EOF, which is no
     \* delimiter: the loop stores it until the assert fails
     ELSE IF g.c = EOF
       THEN [R |-> [R EXCEPT !.in = g.s,
                             !.pos.column =
                               (@ + (MAX_NAME_LENGTH - Len(name))) % UINT16_MOD,
                             !.fault = "assert read_id"],
             name |-> name \o [i \in 1..(MAX_NAME_LENGTH - Len(name)) |-> EOF]]
     ELSE IF isspace(g.c) \/ g.c \in {40, 41, 59}
       THEN [R |-> [R EXCEPT !.in = ungetc(g.c, g.s)], name |-> name]
     ELSE id_loop([R EXCEPT !.in = g.s, !.pos = IncColumn(R.pos)],
                  Append(name, g.c))

read_id(R, out) ==
  LET \* after the loop l
      named(l) ==
        IF l.R.fault # NoFault \/ l.R.in.blocked THEN RRes("READ_NULL", l.R, out)
        ELSE IF l.name = <<>> THEN RRes("READ_NULL", l.R, out)
        \* a NUL after MAX_NAME_LENGTH characters ends the loop before its
        \* assert: *p = 0 is written behind name
        ELSE IF Len(l.name) >= MAX_NAME_LENGTH
          THEN RRes("READ_NULL", [l.R EXCEPT !.fault = "ub read_id"], out)
        ELSE new_form(l.R, [Form("ID", R.pos) EXCEPT !.name = l.name], out)
  IN named(id_loop(R, <<>>))

Stopped(R) == R.fault # NoFault \/ R.in.blocked

RECURSIVE read_form(_, _)
RECURSIVE group_loop(_, _)
RECURSIVE readers(_, _, _)

\* read_group: group_loop, defined below, is its for (;;) loop
read_group(R, out) ==
  LET fpos == R.pos
      \* after the loop l; the group is linked into out
      looped(l) ==
        LET outg == Append(out, [Form("GROUP", fpos) EXCEPT !.items = l.items])
        IN IF Stopped(l.R) THEN RRes("READ_NULL", l.R, outg)
           ELSE IF l.res = "READ_ERROR" THEN RRes("READ_ERROR", l.R, outg)
           ELSE IF l.c = 0
             THEN RRes("READ_ERROR",
                       [l.R EXCEPT !.error = Error(fpos, "Open group", <<>>, 0)],
                       outg)
           ELSE RRes("READ_OK", [l.R EXCEPT !.pos = IncColumn(l.R.pos)], outg)
      \* after new_form nf
      opened(nf) == IF Stopped(nf.R) THEN nf ELSE looped(group_loop(nf.R, <<>>))
      first(g) ==
        IF g.s.blocked THEN RRes("READ_NULL", [R EXCEPT !.in = g.s], out)
        ELSE IF g.c # 40
          THEN RRes("READ_NULL", [R EXCEPT !.in = ungetc(g.c, g.s)], out)
        ELSE opened(new_form([R EXCEPT !.in = g.s, !.pos = IncColumn(R.pos)],
                             Form("GROUP", fpos), out))
  IN first(fgetc(R.in))

\* one round of the for (;;) loop of read_group, after its fgetc g gave a
\* character of an item: [R, items, c, res, again]
group_item(R, items, g) ==
  LET item(r) ==
        IF Stopped(r.R)
          THEN [R |-> r.R, items |-> r.out, c |-> 0, res |-> "READ_OK",
                again |-> FALSE]
        ELSE IF r.res = "READ_ERROR"
          THEN [R |-> r.R, items |-> r.out, c |-> g.c, res |-> "READ_ERROR",
                again |-> FALSE]
        \* READ_NULL sets c = 0 and breaks the switch only: the loop goes
        \* on, for ever when the readers left the stream as it was
        ELSE IF r.res = "READ_NULL" /\ r.R.in.buf = R.in.buf
          THEN [R |-> [r.R EXCEPT !.fault = "hang read_group"],
                items |-> r.out, c |-> 0, res |-> "READ_OK", again |-> FALSE]
        ELSE [R |-> r.R, items |-> r.out, c |-> g.c, res |-> "READ_OK",
              again |-> TRUE]
  IN item(read_form([R EXCEPT !.in = ungetc(g.c, g.s)], items))

\* the for (;;) loop of read_group: [R, items, c, res], c the character
\* that ended the loop and res READ_ERROR when a reader inside failed
group_loop(R, items) ==
  LET first(g) ==
        IF g.s.blocked \/ g.c = 0 \/ g.c = 41
          THEN [R |-> [R EXCEPT !.in = g.s], items |-> items, c |-> g.c,
                res |-> "READ_OK"]
        ELSE LET round(i) ==
                   IF i.again THEN group_loop(i.R, i.items)
                   ELSE [R |-> i.R, items |-> i.items, c |-> i.c, res |-> i.res]
             IN round(group_item(R, items, g))
  IN first(fgetc(R.in))

\* readers[] = {read_ws, read_int, read_semi, read_group, read_id}, from
\* the i-th on: the result of the first that does not return READ_NULL
readers(i, R, out) ==
  LET tried(r) ==
        IF r.res # "READ_NULL" \/ Stopped(r.R) \/ i = 5 THEN r
        ELSE readers(i + 1, r.R, out)
  IN tried(CASE i = 1 -> read_ws(R, out)
             [] i = 2 -> read_int(R, out)
             [] i = 3 -> read_semi(R, out)
             [] i = 4 -> read_group(R, out)
             [] OTHER -> read_id(R, out))

read_form(R, out) == readers(1, R, out)

(***************************************************************************)
(* Operations (struct op).  form is the source form the op was emitted     *)
(* for; pc is as_branch.false_pc or as_jump.pc.                            *)
(***************************************************************************)
\* an op that keeps no form: the fault C27 is checked against
FormRefNull(f) == [type |-> "NULL", pos |-> f.pos, name |-> <<>>]

FormRef(f) == [type |-> f.type, pos |-> f.pos, name |-> f.name]
NoForm == [type |-> "NULL", pos |-> Pos(0, 0), name |-> <<>>]

\* op_init
Op(code, form) ==
  [code |-> code, form |-> form, pc |-> NULL, func |-> NULL, count |-> 1,
   x |-> NullVal, y |-> NullVal, val |-> NullVal]

(***************************************************************************)
(* struct vm.  The one scope in use is scopes[0], whose bindings are env.  *)
(* A state is {regs, stack}; states and frames are the live parts of the   *)
(* pools (state_count = Len(states), frame_count = Len(frames), op_count = *)
(* Len(ops), func_count = Len(funcs)).                                     *)
(***************************************************************************)
\* state_init
NewState == [regs |-> [r \in 0..(MAX_REG_COUNT - 1) |-> NullVal], stack |-> <<>>]

Func(name, nargs, body) ==
  [name |-> name, nargs |-> nargs, body |-> body, start_pc |-> NULL]

\* the functions main defines
Builtin(f) ==
  CASE f = F_ADD -> Func(N_plus, 2, "add_body")
    [] f = F_DEBUG -> Func(N_debug, 0, "debug_body")
    [] f = F_SUB -> Func(N_minus, 2, "sub_body")

\* the macros main defines
Macro(m) ==
  CASE m = M_EQUAL -> [name |-> N_equal, nargs |-> 2]
    [] m = M_FUNC -> [name |-> N_func, nargs |-> 4]
    [] m = M_IF -> [name |-> N_if, nargs |-> 3]
    [] m = M_NOP -> [name |-> N_us, nargs |-> 0]

\* the struct func a reference points to
FuncOf(vm, f) == IF f >= 0 THEN vm.funcs[f + 1] ELSE Builtin(f)

\* pc(vm)
pc_of(vm) == Len(vm.ops)

\* an emit that takes the slot of the last op when there is one: the fault
\* C29 is checked against
emit_over(vm, op) ==
  IF vm.ops = <<>> THEN [vm EXCEPT !.ops = <<op>>]
  ELSE [vm EXCEPT !.ops[Len(vm.ops)] = op]

\* emit: [vm, at]; at is the index of the new op
emit(vm, op) ==
  IF Len(vm.ops) >= MAX_OP_COUNT
    THEN [vm EXCEPT !.fault = "assert emit"]
    ELSE [vm EXCEPT !.ops = Append(vm.ops, op)]

\* peek_state(vm)->stack
TopStack(vm) == vm.states[Len(vm.states)].stack

\* push and push_init: s->stack + s->stack_size++, with no check of the
\* capacity: on a full stack stack_size is incremented all the same and the
\* value is written behind the array, which is undefined; peek_state asserts
\* state_count
push(vm, v) ==
  IF vm.states = <<>> THEN [vm EXCEPT !.fault = "assert peek_state"]
  ELSE IF Len(TopStack(vm)) >= MAX_STACK_SIZE
    THEN [vm EXCEPT !.states[Len(vm.states)].stack = Append(@, v),
                    !.fault = "ub push"]
  ELSE [vm EXCEPT !.states[Len(vm.states)].stack = Append(@, v)]

\* bind_init(vm, name, type)->as_... = v: env_set gives NULL for a name
\* that is bound, and val_init writes through it
bind_init(vm, name, v) ==
  LET set(r) ==
        IF r.fault # NoFault THEN [vm EXCEPT !.fault = r.fault]
        ELSE IF r.slot = 0 THEN [vm EXCEPT !.fault = "segv bind_init"]
        ELSE [vm EXCEPT !.env = [r.env EXCEPT !.items[r.slot].val = v]]
  IN set(env_set(vm.env, name))

\* find: [found, val, fault]; env_get never returns NULL
find(vm, name) ==
  LET got(r) ==
        IF r.fault # NoFault
          THEN [found |-> FALSE, val |-> NullVal, fault |-> r.fault]
          ELSE [found |-> TRUE, val |-> vm.env.items[r.slot].val, fault |-> NoFault]
  IN got(env_get(vm.env, name))

\* a drop_count that stops at the first 'd': the fault C10 is checked against
drop_one(name) ==
  IF name # <<>> /\ \A i \in 1..Len(name) : name[i] = 100 THEN 1 ELSE 0

\* the drop_count loop of form_emit: the length of a name made of 'd' only,
\* else 0
drop_count(name) ==
  IF name # <<>> /\ \A i \in 1..Len(name) : name[i] = 100 THEN Len(name) ELSE 0

(***************************************************************************)
(* The compiler.  Every function returns [res, in, vm]: the result, what   *)
(* is left of the list `in` it was given, and the vm.  res is EMIT_OK,     *)
(* EMIT_ERROR or FAULT (the process stopped, vm.fault says why).           *)
(***************************************************************************)
CRes(res, in, vm) == [res |-> res, in |-> in, vm |-> vm]
Faulted(in, vm, why) == CRes("FAULT", in, [vm EXCEPT !.fault = why])
\* the result after a call of emit, push or bind_init
After(in, vm) == CRes(IF vm.fault # NoFault THEN "FAULT" ELSE "EMIT_OK", in, vm)
WithError(in, vm, err) == CRes("EMIT_ERROR", in, [vm EXCEPT !.error = err])

\* an if_body that leaves b->false_pc as op_init set it: the fault C26 is
\* checked against
FalsePcUnset(jump_at) == NULL

\* where if_body stores b->false_pc: pc(vm) after the JUMP was emitted
FalsePc(jump_at) == jump_at + 1

\* default_emit
default_emit(val, form, in, vm) ==
  After(in, emit(vm, [Op("PUSH", FormRef(form)) EXCEPT !.val = val]))

\* form_val: [lit, val, fault]; lit says that a value is returned
form_val(self, vm) ==
  LET id(v) ==
        IF v.fault # NoFault
          THEN [lit |-> FALSE, val |-> NullVal, fault |-> v.fault]
        ELSE IF ~v.found \/ ~HasLit(v.val)
          THEN [lit |-> FALSE, val |-> NullVal, fault |-> NoFault]
        ELSE [lit |-> TRUE, val |-> v.val, fault |-> NoFault]
  IN CASE self.type = "ID" -> id(find(vm, self.name))
       [] self.type = "LIT" -> [lit |-> TRUE, val |-> self.val, fault |-> NoFault]
       [] OTHER -> [lit |-> FALSE, val |-> NullVal, fault |-> NoFault]

(***************************************************************************)
(* The macro bodies call form_emit, which is defined after them.           *)
(***************************************************************************)
RECURSIVE form_emit(_, _, _)
RECURSIVE emit_forms(_, _)
RECURSIVE func_val_emit(_, _, _, _, _)

\* one operand of equal_body: the op at index `at` gets the value in its
\* slot (side = "x" or "y"), or the form is compiled
equal_arg(at, side, in, vm) ==
  LET arg(f, fv) ==
        IF fv.fault # NoFault THEN Faulted(Tail(in), vm, fv.fault)
        ELSE IF fv.lit
          THEN CRes("EMIT_OK", Tail(in),
                    IF side = "x"
                      THEN [vm EXCEPT !.ops[at + 1].x = fv.val]
                      ELSE [vm EXCEPT !.ops[at + 1].y = fv.val])
        ELSE form_emit(f, Tail(in), vm)
  IN IF in = <<>> THEN Faulted(in, vm, "ub ls_del")
     ELSE arg(Head(in), form_val(Head(in), vm))

\* equal_body: the EQUAL op is emitted first, then the operands are compiled
equal_body(form, in, vm) ==
  LET y(rx) ==
        IF rx.res # "EMIT_OK" THEN rx
        ELSE equal_arg(pc_of(vm), "y", rx.in, rx.vm)
      x(vm1) ==
        IF vm1.fault # NoFault THEN After(in, vm1)
        ELSE y(equal_arg(pc_of(vm), "x", in, vm1))
  IN x(emit(vm, Op("EQUAL", FormRef(form))))

\* func_emit: self is the index of the function in vm->funcs
func_emit(self, form, in, vm) ==
  LET \* the RET was emitted: the JUMP at skip gets its target
      end(rin, vm3) ==
        IF vm3.fault # NoFault THEN After(rin, vm3)
        ELSE CRes("EMIT_OK", rin, [vm3 EXCEPT !.ops[pc_of(vm) + 1].pc = pc_of(vm3)])
      \* the body was compiled
      ret(r) ==
        IF r.res # "EMIT_OK" THEN r
        ELSE end(r.in, emit(r.vm, [Op("RET", FormRef(form)) EXCEPT !.func = self]))
      \* the JUMP was emitted: start_pc is the next op
      body(vm1) ==
        IF vm1.fault # NoFault THEN After(in, vm1)
        ELSE ret(form_emit(form, in,
                           [vm1 EXCEPT !.funcs[self + 1].start_pc = pc_of(vm1)]))
  IN body(emit(vm, Op("JUMP", FormRef(form))))

\* a func_body that pushes the function whatever its name: the fault C7 is
\* checked against
func_pushed(name, self, vm) == push(vm, Val("Func", self))

\* what func_body does with the compiled function: `_` pushes it on the
\* stack, any other name is bound to it
func_bind(name, self, vm) ==
  IF name = N_us THEN push(vm, Val("Func", self))
  ELSE bind_init(vm, name, Val("Func", self))

\* func_body: macro_emit has checked that four forms are there.  The name
\* is read from as_id whatever the form is; vm->funcs + vm->func_count++ is
\* not checked against the capacity.
func_body(form, in, vm) ==
  LET name == in[1].name
      rest == SubSeq(in, 5, Len(in))
      self == Len(vm.funcs)
      bound(r) ==
        IF r.res # "EMIT_OK" THEN r
        ELSE After(r.in, func_bind(name, self, r.vm))
  IN IF in[1].type # "ID" THEN Faulted(rest, vm, "ub func_body name")
     ELSE IF self >= MAX_FUNC_COUNT THEN Faulted(rest, vm, "ub func_body funcs")
     ELSE bound(func_emit(self, in[4], rest,
                          [vm EXCEPT !.funcs = Append(@, Func(name, 0, "__func_body"))]))

if_body(form, in, vm) ==
  LET \* the false branch was compiled: the JUMP at j gets its target
      end(j, rf) ==
        IF rf.res # "EMIT_OK" THEN rf
        ELSE CRes("EMIT_OK", rf.in, [rf.vm EXCEPT !.ops[j + 1].pc = pc_of(rf.vm)])
      \* the JUMP was emitted at j: the BRANCH at b gets its false_pc
      false(b, j, rin, vm2) ==
        IF vm2.fault # NoFault THEN After(rin, vm2)
        ELSE IF rin = <<>> THEN Faulted(rin, vm2, "ub ls_del")
        ELSE end(j, form_emit(Head(rin), Tail(rin),
                              [vm2 EXCEPT !.ops[b + 1].pc = FalsePc(j)]))
      \* the true branch was compiled
      jump(b, rt) ==
        IF rt.res # "EMIT_OK" THEN rt
        ELSE false(b, pc_of(rt.vm), rt.in, emit(rt.vm, Op("JUMP", FormRef(form))))
      \* the BRANCH was emitted at b
      true(b, rin, vm1) ==
        IF vm1.fault # NoFault THEN After(rin, vm1)
        ELSE IF rin = <<>> THEN Faulted(rin, vm1, "ub ls_del")
        ELSE jump(b, form_emit(Head(rin), Tail(rin), vm1))
      \* the condition was compiled
      branch(rc) ==
        IF rc.res # "EMIT_OK" THEN rc
        ELSE true(pc_of(rc.vm), rc.in, emit(rc.vm, Op("BRANCH", FormRef(form))))
  IN branch(form_emit(Head(in), Tail(in), vm))

\* a macro_emit that reports the macro's arity instead of the number of
\* forms found: the fault C12 is checked against
macro_emit_arity(val, form, in, vm) ==
  IF Len(in) < Macro(val.v).nargs
    THEN WithError(in, vm,
                   Error(form.pos, "Missing macro arguments", Macro(val.v).name,
                         Macro(val.v).nargs))
  ELSE CASE val.v = M_EQUAL -> equal_body(form, in, vm)
         [] val.v = M_FUNC -> func_body(form, in, vm)
         [] val.v = M_IF -> if_body(form, in, vm)
         [] OTHER -> CRes("EMIT_OK", in, vm)

macro_emit(val, form, in, vm) ==
  IF Len(in) < Macro(val.v).nargs
    THEN WithError(in, vm,
                   Error(form.pos, "Missing macro arguments", Macro(val.v).name,
                         Len(in)))
  ELSE CASE val.v = M_EQUAL -> equal_body(form, in, vm)
         [] val.v = M_FUNC -> func_body(form, in, vm)
         [] val.v = M_IF -> if_body(form, in, vm)
         [] OTHER -> CRes("EMIT_OK", in, vm)

\* the ID case of form_emit, before the value found is compiled:
\* [done, r, val]; done says that r is the result of form_emit
id_emit(self, in, vm) ==
  LET n == drop_count(self.name)
      id(v) ==
        IF v.fault # NoFault
          THEN [done |-> TRUE, val |-> NullVal, r |-> Faulted(in, vm, v.fault)]
        ELSE IF ~v.found
          THEN [done |-> TRUE, val |-> NullVal,
                r |-> WithError(in, vm, Error(self.pos, "Unknown id", self.name, 0))]
        ELSE [done |-> FALSE, val |-> v.val, r |-> CRes("EMIT_OK", in, vm)]
  IN IF n # 0
       THEN [done |-> TRUE, val |-> NullVal,
             r |-> After(in, emit(vm, [Op("DROP", FormRef(self)) EXCEPT !.count = n]))]
     ELSE id(find(vm, self.name))

\* the loops of emit_forms and func_val_emit go on while form_emit gives
\* EMIT_OK
Compiled(r) == r.res = "EMIT_OK"

\* the result of form_emit on a group: the items are compiled, the list the
\* group is in stays as it is
Grouped(r, in) == CRes(r.res, in, r.vm)


\* the loop of emit_forms, which is also the loop of form_emit on a group
emit_forms(vm, in) ==
  LET next(r) == IF Compiled(r) THEN emit_forms(r.vm, r.in) ELSE r
  IN IF in = <<>> THEN CRes("EMIT_OK", in, vm)
     ELSE next(form_emit(Head(in), Tail(in), vm))

\* func_val_emit, with n arguments left to compile; ls_del(in->next) on an
\* empty list yields the list head itself, read as a form
func_val_emit(val, form, in, vm, n) ==
  LET next(r) ==
        IF Compiled(r) THEN func_val_emit(val, form, r.in, r.vm, n - 1) ELSE r
  IN IF n = 0
       THEN After(in, emit(vm, [Op("CALL", FormRef(form)) EXCEPT !.func = val.v]))
     ELSE IF in = <<>> THEN Faulted(in, vm, "ub ls_del")
     ELSE next(form_emit(Head(in), Tail(in), vm))

\* val_emit: methods.emit of the value's type
val_emit(val, form, in, vm) ==
  CASE val.type = "Func" -> func_val_emit(val, form, in, vm, FuncOf(vm, val.v).nargs)
    [] val.type = "Macro" -> macro_emit(val, form, in, vm)
    [] OTHER -> default_emit(val, form, in, vm)

form_emit(self, in, vm) ==
  CASE self.type = "GROUP" -> Grouped(emit_forms(vm, self.items), in)
    [] self.type = "ID" ->
         LET id(i) == IF i.done THEN i.r ELSE val_emit(i.val, self, in, vm)
         IN id(id_emit(self, in, vm))
    [] self.type = "LIT" ->
         After(in, emit(vm, [Op("PUSH", FormRef(self)) EXCEPT !.val = self.val]))
    [] OTHER ->
         WithError(in, vm, Error(self.pos, "Semi emit", <<>>, 0))

(***************************************************************************)
(* vm_init and the bindings of main, in the order of the code.             *)
(***************************************************************************)
RECURSIVE BindAll(_, _)
BindAll(vm, bs) ==
  IF bs = <<>> \/ vm.fault # NoFault THEN vm
  ELSE BindAll(bind_init(vm, bs[1][1], bs[1][2]), Tail(bs))

\* vm_init: the counters it sets, push_scope, and its bindings
vm_init ==
  BindAll([env |-> EmptyEnv, funcs |-> <<>>, ops |-> <<>>, states |-> <<>>,
           frames |-> <<>>, error |-> NoError, debug |-> FALSE, fault |-> NoFault],
          << <<N_Meta, Val("Meta", TY_META)>>,
             <<N_Bool, Val("Meta", TY_BOOL)>>,
             <<N_T, BoolVal(TRUE)>>,
             <<N_F, BoolVal(FALSE)>>,
             <<N_Func, Val("Meta", TY_FUNC)>>,
             <<N_Int, Val("Meta", TY_INT)>> >>)

\* main, up to the REPL loop: push_state and the bindings
main_init ==
  BindAll([vm_init EXCEPT !.states = <<NewState>>],
          << <<N_Macro, Val("Meta", TY_MACRO)>>,
             <<N_plus, Val("Func", F_ADD)>>,
             <<N_debug, Val("Func", F_DEBUG)>>,
             <<N_equal, Val("Macro", M_EQUAL)>>,
             <<N_func, Val("Macro", M_FUNC)>>,
             <<N_if, Val("Macro", M_IF)>>,
             <<N_us, Val("Macro", M_NOP)>>,
             <<N_minus, Val("Func", F_SUB)>> >>)

(***************************************************************************)
(* The lines a user types.  Each ends with a newline.                      *)
(***************************************************************************)
SP == <<32>>
NL == <<10>>
SEMI == <<59>>
LP == <<40>>
RP == <<41>>
D0 == <<48>>
D1 == <<49>>
D2 == <<50>>
D3 == <<51>>
D5 == <<53>>
D42 == <<52, 50>>
DMAX == <<50, 49, 52, 55, 52, 56, 51, 54, 52, 55>>
\* the character '\0', which the readers take for the end of the text
NUL == <<0>>
N_d == <<100>>
N_dd == <<100, 100>>
N_ddd == <<100, 100, 100>>
N_foo == <<102, 111, 111>>
N_f == <<102>>
N_a == <<97>>
N_zz == <<122, 122>>

RECURSIVE Words(_)
\* the words, separated by single spaces
Words(ws) ==
  IF ws = <<>> THEN <<>>
  ELSE IF Len(ws) = 1 THEN ws[1]
  ELSE ws[1] \o SP \o Words(Tail(ws))

\* one turn: the words and the terminator
Turn(ws) == Words(ws) \o SEMI
Line(ws) == Turn(ws) \o NL
Unit == LP \o RP

Lines ==
  { Line(<<N_plus, <<51, 53>>, <<55>> >>),                   \* + 35 7;
    Line(<<D1, D2, D3, N_dd>>),                              \* 1 2 3 dd;
    Line(<<D1, N_ddd>>),                                     \* 1 ddd;
    Line(<<N_if, D42, N_T, N_F>>),                           \* if 42 T F;
    Line(<<N_if, D0, N_T, N_F>>),                            \* if 0 T F;
    Line(<<N_if, N_F, D1, N_Int>>),                          \* if F 1 Int;
    Line(<<N_if, N_Int, N_if, D0, D1, D2, D3>>),             \* if Int if 0 1 2 3;
    Line(<<N_if, N_debug, LP \o D1 \o SP \o D2 \o RP, N_dd>>), \* if debug (1 2) dd;
    Line(<<N_equal, D3, D3>>),                               \* = 3 3;
    Line(<<N_equal, N_plus, D1, D2, D3>>),                   \* = + 1 2 3;
    Line(<<N_equal, D1, LP \o D1 \o RP>>),                   \* = 1 (1);
    Line(<<N_equal, N_us, N_T>>),                            \* = _ T;
    Line(<<N_foo>>) ,                                        \* foo;
    Turn(<<N_foo>>) \o Line(<<N_a>>),                        \* foo;a;
    Line(<<N_zz>>),                                          \* zz;
    Line(<<N_func, N_f, Unit, Unit, D5, N_f>>),              \* func f () () 5 f;
    Line(<<N_func, N_f, Unit, Unit, LP \o N_if \o SP \o N_debug \o SP \o D1 \o SP \o N_d \o RP, N_f, N_f>>),
                                                             \* func f () () (if debug 1 d) f f;
    Line(<<N_func, N_us, Unit, Unit, D1>>),                  \* func _ () () 1;
    Line(<<N_func, N_a, Unit, Unit, LP \o N_func \o SP \o N_us \o SP \o Unit \o SP \o Unit \o SP \o D2 \o RP, N_a>>),
                                                             \* func a () () (func _ () () 2) a;
    Line(<<N_func, N_a, Unit, Unit, N_a>>),                  \* func a () () a;
    Line(<<N_func, N_dd, Unit, Unit, D1, D2, N_dd>>),        \* func dd () () 1 2 dd;
    Line(<<N_f>>),                                           \* f;
    Line(<<N_minus, D1, N_plus, D2, D3>>),                   \* - 1 + 2 3;
    Line(<<N_plus, DMAX, D1>>),                              \* + 2147483647 1;
    Line(<<N_minus, N_minus \o DMAX, D2>>),                  \* - -2147483647 2;
    Line(<<D1, D2>>),                                        \* 1 2;
    Line(<<N_dd>>),                                          \* dd;
    Line(<<N_d, N_d>>),                                      \* d d;
    Line(<<N_if, D0, N_T>>),                                 \* if 0 T;
    Line(<<D1, LP \o NUL>>),                                 \* 1 (\0;
    Line(<<N_func, N_f, Unit, Unit, D5, N_foo>>),            \* func f () () 5 foo;
    Line([i \in 1..MaxPush |-> D1]),                         \* 1 1 ... 1;
    Line(<<N_equal, LP \o D1 \o RP, LP \o D2 \o RP>>),        \* = (1) (2);
    Line(<<N_func, N_a, Unit, Unit, N_f, N_a>>)              \* func a () () f a;
  }

(***************************************************************************)
(* The state of the program: the objects of main and where it stands.      *)
(***************************************************************************)
VARIABLES
  vm,          \* struct vm, without form_count
  form_count,  \* vm.form_count, which vm_init does not set
  stdin,       \* the character source
  pos,         \* main's pos
  forms,       \* main's forms: the list of the turn
  start_pc,    \* main's start_pc
  op,          \* eval's op
  phase,       \* "loop": at the loop test; "emit"; "eval"; "stopped"
  stdout,      \* what was printed
  typed,       \* the number of lines typed
  turn,        \* history: the states and the bindings at the loop test of this
               \* turn, the forms read, the results of read_form, emit_forms, eval
  trace,       \* history: the ops eval has dispatched in this turn
  snap,        \* history: per live frame, the caller's state at the CALL
  dead,        \* history: the program counters of the ops emitted in the turns
               \* whose emit_forms failed
  seen         \* history: the forms the reader has made, groups' items
               \* included, each as its type, position and name

vars == <<vm, form_count, stdin, pos, forms, start_pc, op, phase, stdout, typed,
          turn, trace, snap, dead, seen>>

\* form_count is read before it was ever written: any value
FormCountInit == {0, MAX_FORM_COUNT}

Init ==
  /\ vm = main_init
  /\ form_count \in FormCountInit
  /\ stdin = Stream(<<>>, FALSE)
  /\ pos = Pos(0, 0)
  /\ forms = <<>>
  /\ start_pc = 0
  /\ op = 0
  /\ phase = "loop"
  /\ stdout = <<>>
  /\ typed = 0
  /\ turn = [before |-> <<>>, env |-> EmptyEnv, forms |-> <<>>, n |-> 0,
             read |-> "none", emit |-> "none", eval |-> "none"]
  /\ trace = <<>>
  /\ snap = <<>>
  /\ dead = {}
  /\ seen = {}

\* an inner loop of main that leaves the semicolon form in the list: the
\* fault C31 is checked against
RECURSIVE read_turn_kept(_, _)
read_turn_kept(R, fs) ==
  LET turned(r) ==
        IF Stopped(r.R) \/ r.res # "READ_OK" \/ r.out[Len(r.out)].type = "SEMI"
          THEN [R |-> r.R, forms |-> r.out, res |-> r.res]
        ELSE read_turn_kept(r.R, r.out)
  IN turned(read_form(R, fs))

\* the inner loop of main: read forms up to a semicolon form, which is
\* removed; [R, forms, res], res the result of the last read_form
RECURSIVE read_turn(_, _)
read_turn(R, fs) ==
  LET turned(r) ==
        IF Stopped(r.R) \/ r.res # "READ_OK"
          THEN [R |-> r.R, forms |-> r.out, res |-> r.res]
        ELSE IF r.out[Len(r.out)].type = "SEMI"
          THEN [R |-> r.R, forms |-> SubSeq(r.out, 1, Len(r.out) - 1),
                res |-> r.res]
        ELSE read_turn(r.R, r.out)
  IN turned(read_form(R, fs))

ReadNow == read_turn(RState(stdin, pos, form_count, vm.error), <<>>)

\* The user types a line, while the program waits for input.
Type ==
  /\ phase = "loop" /\ ~stdin.eofind /\ ~stdin.closed
  /\ ReadNow.R.in.blocked
  /\ typed < MaxLines
  /\ \E l \in Lines : stdin' = [stdin EXCEPT !.buf = @ \o l]
  /\ typed' = typed + 1
  /\ UNCHANGED <<vm, form_count, pos, forms, start_pc, op, phase, stdout, turn,
                 trace, snap, dead, seen>>

\* The user ends the input, while the program waits for input.
Close ==
  /\ phase = "loop" /\ ~stdin.eofind /\ ~stdin.closed
  /\ ReadNow.R.in.blocked
  /\ stdin' = [stdin EXCEPT !.closed = TRUE]
  /\ UNCHANGED <<vm, form_count, pos, forms, start_pc, op, phase, stdout, typed,
                 turn, trace, snap, dead, seen>>

\* while (!feof(stdin)) fails and main returns.  No action takes this exit:
\* the end-of-file indicator is set by a read that is followed, in the same
\* turn, by read_id, whose loop runs on the EOF character until its assert
\* fails (see id_loop).
AtExit == phase = "loop" /\ stdin.eofind

\* history: the forms of the list fs and of their groups, as type, position
\* and name
RECURSIVE Made(_)
Made(fs) ==
  IF fs = <<>> THEN {}
  ELSE {[type |-> fs[1].type, pos |-> fs[1].pos, name |-> fs[1].name]}
         \cup Made(fs[1].items) \cup Made(Tail(fs))

\* One pass of the head of the loop: the forms of the turn are read and
\* start_pc is taken.
ReadTurn ==
  /\ phase = "loop" /\ ~stdin.eofind
  /\ \E r \in {ReadNow} :
        /\ ~r.R.in.blocked
        /\ stdin' = r.R.in
        /\ pos' = r.R.pos
        /\ form_count' = r.R.form_count
        /\ forms' = r.forms
        /\ vm' = [vm EXCEPT !.error = r.R.error, !.fault = r.R.fault]
        /\ phase' = IF r.R.fault # NoFault THEN "stopped" ELSE "emit"
        /\ turn' = [before |-> vm.states, env |-> vm.env, forms |-> r.forms,
                    n |-> turn.n + 1, read |-> r.res, emit |-> "none",
                    eval |-> "none"]
        /\ seen' = seen \cup Made(r.forms)
  /\ start_pc' = pc_of(vm)
  /\ trace' = <<>>
  /\ UNCHANGED <<op, stdout, typed, snap, dead>>

\* emit_forms, and on EMIT_OK the STOP op; on EMIT_ERROR the error is
\* printed and the loop continues
\* the STOP op main emits after emit_forms gave EMIT_OK
emit_stop(r) ==
  IF r.res = "EMIT_OK" THEN After(r.in, emit(r.vm, Op("STOP", NoForm))) ELSE r

\* op_dump: the line DISPATCH prints for the op at pc when vm->debug is set
op_dump(v, pc) ==
  [kind |-> "op",
   code |-> IF pc >= 0 /\ pc < Len(v.ops) THEN v.ops[pc + 1].code ELSE "NULL"]

\* what DISPATCH(next) prints: the op, if the flag is set
Dumped(v, next) ==
  IF v.debug /\ v.fault = NoFault THEN Append(stdout, op_dump(v, next)) ELSE stdout

Emit ==
  /\ phase = "emit"
  /\ \E r \in {emit_stop(emit_forms(vm, forms))} :
        /\ forms' = r.in
        /\ vm' = r.vm
        /\ phase' = CASE r.res = "FAULT" -> "stopped"
                      [] r.res = "EMIT_ERROR" -> "loop"
                      [] OTHER -> "eval"
        /\ stdout' = CASE r.res = "EMIT_ERROR" ->
                             Append(stdout, [kind |-> "error", error |-> r.vm.error])
                        [] r.res = "FAULT" -> stdout
                        [] OTHER -> Dumped(r.vm, start_pc)
        /\ turn' = [turn EXCEPT !.emit = r.res]
        /\ dead' = IF r.res = "EMIT_ERROR"
                     THEN dead \cup (Len(vm.ops) .. (Len(r.vm.ops) - 1))
                     ELSE dead
  /\ op' = start_pc
  /\ UNCHANGED <<form_count, stdin, pos, start_pc, typed, trace, snap, seen>>

(***************************************************************************)
(* eval: one action per op code.  DISPATCH(next) sets op.                  *)
(***************************************************************************)
InRange == op >= 0 /\ op < Len(vm.ops)
Cur == vm.ops[op + 1]
At(code) == phase = "eval" /\ InRange /\ Cur.code = code
Top == Len(vm.states)
Stack == vm.states[Top].stack
\* a stack that loses one value whatever n is: the fault C11 is checked
\* against
ShrunkOne(stack, n) == SubSeq(stack, 1, Len(stack) - 1)

\* the stack without its n top values
Shrunk(stack, n) == SubSeq(stack, 1, Len(stack) - n)

\* history: the op dispatched, the frame depth, and for BRANCH the value
\* popped
Traced(v) == Append(trace, [pc |-> op, depth |-> Len(vm.frames), val |-> v])

\* a pop that leaves the value where it is: the fault C4 is checked against
pop_kept(v) == v

\* pop: the vm without the top value of its stack
pop(v) ==
  [v EXCEPT !.states[Len(v.states)].stack = SubSeq(@, 1, Len(@) - 1)]

\* a failed assert or an undefined step ends the process
Stop(why) ==
  /\ vm' = [vm EXCEPT !.fault = why]
  /\ phase' = "stopped"
  /\ UNCHANGED <<form_count, stdin, pos, forms, start_pc, op, stdout, typed, turn,
                 snap, dead, seen>>

\* DISPATCH(next) with the vm the op leaves
Dispatch(next, vm2) ==
  /\ vm' = vm2
  /\ op' = next
  /\ phase' = IF vm2.fault # NoFault THEN "stopped" ELSE "eval"
  /\ stdout' = Dumped(vm2, next)
  /\ UNCHANGED <<form_count, stdin, pos, forms, start_pc, typed, turn>>

\* eval returns to main: an error is printed, else the stack is dumped
Return(res, vm2) ==
  /\ vm' = vm2
  /\ phase' = "loop"
  /\ stdout' = Append(stdout,
                      IF res = "EVAL_OK"
                        THEN [kind |-> "stack", stack |-> TopStack(vm2)]
                        ELSE [kind |-> "error", error |-> vm2.error])
  /\ turn' = [turn EXCEPT !.eval = res]
  /\ UNCHANGED <<form_count, stdin, pos, forms, start_pc, op, typed>>

\* BRANCH taking only an Int or a Bool that is not zero for true: the fault C3
\* is checked against
BranchNonzero(v, at, false_pc) ==
  IF v.type \in {"Int", "Bool"} /\ v.v # 0 THEN at + 1 ELSE false_pc

\* BRANCH: the next op for the value popped
BranchNext(v, at, false_pc) == IF val_true(v) THEN at + 1 ELSE false_pc

\* a push_frame that saves the address it is given less one, the CALL itself:
\* the fault C24 is checked against
push_frame_back(v, f, ret_pc) ==
  IF Len(v.states) >= MAX_STATE_COUNT THEN [v EXCEPT !.fault = "assert push_state"]
  ELSE IF Len(v.frames) >= MAX_FRAME_COUNT
    THEN [v EXCEPT !.fault = "assert push_frame"]
  ELSE [v EXCEPT !.states = Append(@, NewState),
                 !.frames = Append(@, [func |-> f, ret_pc |-> ret_pc - 1])]

\* a push_frame without its push_state: the fault C25 is checked against
push_frame_only(v, f, ret_pc) ==
  IF Len(v.frames) >= MAX_FRAME_COUNT
    THEN [v EXCEPT !.fault = "assert push_frame"]
  ELSE [v EXCEPT !.frames = Append(@, [func |-> f, ret_pc |-> ret_pc])]

\* push_frame: push_state, then the frame
push_frame(v, f, ret_pc) ==
  IF Len(v.states) >= MAX_STATE_COUNT THEN [v EXCEPT !.fault = "assert push_state"]
  ELSE IF Len(v.frames) >= MAX_FRAME_COUNT
    THEN [v EXCEPT !.fault = "assert push_frame"]
  ELSE [v EXCEPT !.states = Append(@, NewState),
                 !.frames = Append(@, [func |-> f, ret_pc |-> ret_pc])]

\* a pop_frame without its pop_state: the fault C6 is checked against
pop_frame_only(v) == [v EXCEPT !.frames = SubSeq(@, 1, Len(@) - 1)]

\* pop_frame: pop_state, then the frame
pop_frame(v) ==
  [v EXCEPT !.states = SubSeq(@, 1, Len(@) - 1),
            !.frames = SubSeq(@, 1, Len(@) - 1)]

\* sub_body with its operands exchanged (y - x): the fault C2 is checked
\* against
ArithExchanged(body, x, y) ==
  [x EXCEPT !.v = IF body = "add_body" THEN Add32(x.v, y.v) ELSE Sub32(y.v, x.v)]

\* add_body and sub_body: x->as_int op= y.as_int on the value below the top
Arith(body, x, y) ==
  [x EXCEPT !.v = IF body = "add_body" THEN Add32(x.v, y.v) ELSE Sub32(x.v, y.v)]

\* a DROP that wants one value more than it takes: the fault C9 is checked
\* against
DropMore(size, count) == size > count

\* DROP: whether the stack holds the values to drop
DropOk(size, count) == size >= count

(***************************************************************************)
(* What the op at o does to the vm v: the set of the outcomes it can have. *)
(* An outcome is a failed assert (to = "stop"), a DISPATCH(next) (to =     *)
(* "dispatch") or a return from eval (to = "return").                      *)
(***************************************************************************)
Aborts(why) == [to |-> "stop", why |-> why, next |-> NULL, vm |-> NullVal,
                res |-> "none"]
\* a DISPATCH that, with the flag set, goes to the op after the one it dumped:
\* the fault C17 is checked against
GoesPast(next, v) ==
  [to |-> "dispatch", why |-> NoFault, next |-> IF v.debug THEN next + 1 ELSE next,
   vm |-> v, res |-> "none"]

Goes(next, v) == [to |-> "dispatch", why |-> NoFault, next |-> next, vm |-> v,
                  res |-> "none"]
Returns(res, v) == [to |-> "return", why |-> NoFault, next |-> NULL, vm |-> v,
                    res |-> res]

\* the body of the function f called at o
call_body(v, o, f, stack) ==
  CASE FuncOf(v, f).body \in {"add_body", "sub_body"} ->
         IF Len(stack) < 2 THEN {Aborts("assert pop")}
         ELSE {Goes(o + 1, push(pop(pop(v)),
                                Arith(FuncOf(v, f).body, stack[Len(stack) - 1],
                                      stack[Len(stack)])))}
    [] FuncOf(v, f).body = "debug_body" ->
         {Goes(o + 1, push([v EXCEPT !.debug = ~v.debug], BoolVal(~v.debug)))}
    [] OTHER -> {Goes(FuncOf(v, f).start_pc, push_frame(v, f, o + 1))}

\* an EQUAL that reads the operands not inlined and leaves them on the stack:
\* the fault C23 is checked against
equal_op_peek(v, o, cur, stack) ==
  LET ny == IF cur.y.type = "NULL" THEN 1 ELSE 0
      nx == IF cur.x.type = "NULL" THEN 1 ELSE 0
      y == IF ny = 1 THEN stack[Len(stack)] ELSE cur.y
      x == IF nx = 1 THEN stack[Len(stack) - ny] ELSE cur.x
  IN IF Len(stack) < nx + ny THEN {Aborts("assert pop")}
     ELSE IF ~HasEqual(x.type) THEN {Aborts("assert val_equal")}
     ELSE { Goes(o + 1, push(v, BoolVal(r))) : r \in val_equal(x, y) }

\* EQUAL: the operands not inlined are popped, y first
equal_op(v, o, cur, stack) ==
  LET ny == IF cur.y.type = "NULL" THEN 1 ELSE 0
      nx == IF cur.x.type = "NULL" THEN 1 ELSE 0
      y == IF ny = 1 THEN stack[Len(stack)] ELSE cur.y
      x == IF nx = 1 THEN stack[Len(stack) - ny] ELSE cur.x
  IN IF Len(stack) < nx + ny THEN {Aborts("assert pop")}
     ELSE IF ~HasEqual(x.type) THEN {Aborts("assert val_equal")}
     ELSE { Goes(o + 1,
                 push([v EXCEPT !.states[Len(v.states)].stack =
                         Shrunk(stack, nx + ny)],
                      BoolVal(r))) : r \in val_equal(x, y) }

\* NOP: op is moved to the last NOP of the run it stands in
RECURSIVE nop_run(_, _)
nop_run(v, o) ==
  IF o + 1 < Len(v.ops) /\ v.ops[o + 2].code = "NOP" THEN nop_run(v, o + 1) ELSE o

eval_op(v, o, cur, stack) ==
  CASE cur.code = "BRANCH" ->
         IF stack = <<>> THEN {Aborts("assert pop")}
         ELSE {Goes(BranchNext(stack[Len(stack)], o, cur.pc), pop(v))}
    [] cur.code = "CALL" -> call_body(v, o, cur.func, stack)
    [] cur.code = "DROP" ->
         IF DropOk(Len(stack), cur.count)
           THEN {Goes(o + 1, [v EXCEPT !.states[Len(v.states)].stack =
                                Shrunk(stack, cur.count)])}
           ELSE {Returns("EVAL_ERROR",
                         [v EXCEPT !.error =
                            Error(cur.form.pos, "Not enough values", <<>>, 0)])}
    [] cur.code = "EQUAL" -> equal_op(v, o, cur, stack)
    [] cur.code = "JUMP" -> {Goes(cur.pc, v)}
    [] cur.code = "NOP" -> {Goes(nop_run(v, o), v)}
    [] cur.code = "PUSH" -> {Goes(o + 1, push(v, cur.val))}
    [] cur.code = "RET" ->
         IF v.frames = <<>> THEN {Aborts("assert pop_frame")}
         ELSE {Goes(v.frames[Len(v.frames)].ret_pc, pop_frame(v))}
    [] OTHER -> {Returns("EVAL_OK", v)}

\* the outcomes of the op eval stands at
Outcomes == eval_op(vm, op, Cur, Stack)

\* eval takes the outcome r; snap follows the frames
Take(r) ==
  /\ CASE r.to = "stop" -> Stop(r.why)
       [] r.to = "dispatch" -> Dispatch(r.next, r.vm)
       [] OTHER -> Return(r.res, r.vm)
  /\ snap' = IF r.to # "dispatch" \/ Len(r.vm.frames) = Len(vm.frames) THEN snap
             ELSE IF Len(r.vm.frames) > Len(vm.frames)
               THEN Append(snap, vm.states[Top])
             ELSE SubSeq(snap, 1, Len(snap) - 1)
  /\ dead' = dead
  /\ seen' = seen

Branch ==
  /\ At("BRANCH")
  /\ trace' = Traced(IF Stack = <<>> THEN NullVal ELSE Stack[Len(Stack)])
  /\ \E r \in Outcomes : Take(r)

Call ==
  /\ At("CALL")
  /\ trace' = Traced(NullVal)
  /\ \E r \in Outcomes : Take(r)

Drop ==
  /\ At("DROP")
  /\ trace' = Traced(NullVal)
  /\ \E r \in Outcomes : Take(r)

Equal ==
  /\ At("EQUAL")
  /\ trace' = Traced(NullVal)
  /\ \E r \in Outcomes : Take(r)

Jump ==
  /\ At("JUMP")
  /\ trace' = Traced(NullVal)
  /\ \E r \in Outcomes : Take(r)

Push ==
  /\ At("PUSH")
  /\ trace' = Traced(NullVal)
  /\ \E r \in Outcomes : Take(r)

Ret ==
  /\ At("RET")
  /\ trace' = Traced(NullVal)
  /\ \E r \in Outcomes : Take(r)

Halt ==
  /\ At("STOP")
  /\ trace' = Traced(NullVal)
  /\ \E r \in Outcomes : Take(r)

REPL == Type \/ Close \/ ReadTurn \/ Emit
Eval == Branch \/ Call \/ Drop \/ Equal \/ Jump \/ Push \/ Ret \/ Halt

Next == REPL \/ Eval

Spec == Init /\ [][Next]_vars

(***************************************************************************)
(* Properties.  What the history variables give: turn.before and turn.env  *)
(* are the states and the bindings when the turn began, turn.forms the     *)
(* forms read for it, trace the ops eval has run in it.                    *)
(***************************************************************************)
\* the operand stack when the turn began
StackBefore == turn.before[Len(turn.before)].stack

\* the name has a binding of its own
Bound(env, name) == \E i \in 1..Len(env.items) : env.items[i].name = name

\* the value bound to the name
Lookup(env, name) ==
  env.items[CHOOSE i \in 1..Len(env.items) : env.items[i].name = name].val

\* the turn is over and main is back at its loop test
TurnOver == phase = "loop" /\ turn.n > 0

\* an identifier form that is no run of 'd' and has no binding
IsUnboundId(f, env) ==
  f.type = "ID" /\ drop_count(f.name) = 0 /\ ~Bound(env, f.name)

\* C1: when the first form of a turn is an identifier that is no run of 'd'
\* and is not bound, emit_forms returns EMIT_ERROR, the error is "Unknown
\* id: <name>" at the position of that form, and no op was emitted.
C1_UnknownId ==
  (turn.emit # "none" /\ turn.forms # <<>> /\ IsUnboundId(turn.forms[1], turn.env))
    => /\ turn.emit = "EMIT_ERROR"
       /\ vm.error = Error(turn.forms[1].pos, "Unknown id", turn.forms[1].name, 0)
       /\ pc_of(vm) = start_pc

(***************************************************************************)
(* A reference evaluator for prefix expressions over + and -.  It works on *)
(* unsigned 32-bit numbers written as two 16-bit digits <<hi, lo>>, where  *)
(* addition is digit-wise with a carry and subtraction adds the two's      *)
(* complement.                                                             *)
(***************************************************************************)
ToU(v) ==
  IF v >= 0 THEN <<v \div UINT16_MOD, v % UINT16_MOD>>
  ELSE <<((v + INT32_MAX) + 1) \div UINT16_MOD + UINT16_MOD \div 2,
         ((v + INT32_MAX) + 1) % UINT16_MOD>>

FromU(u) ==
  IF u[1] >= UINT16_MOD \div 2
    THEN (((u[1] - UINT16_MOD \div 2) * UINT16_MOD + u[2]) - INT32_MAX) - 1
    ELSE u[1] * UINT16_MOD + u[2]

AddU(a, b) ==
  <<(a[1] + b[1] + (a[2] + b[2]) \div UINT16_MOD) % UINT16_MOD,
    (a[2] + b[2]) % UINT16_MOD>>

SubU(a, b) ==
  AddU(a, AddU(<<(UINT16_MOD - 1) - b[1], (UINT16_MOD - 1) - b[2]>>, <<0, 1>>))

\* the expression at the head of the forms fs: [ok, u, rest]
RECURSIVE RefEval(_)
RefEval(fs) ==
  IF fs = <<>> THEN [ok |-> FALSE, u |-> <<0, 0>>, rest |-> <<>>]
  ELSE IF fs[1].type = "LIT" /\ fs[1].val.type = "Int"
    THEN [ok |-> TRUE, u |-> ToU(fs[1].val.v), rest |-> Tail(fs)]
  ELSE IF fs[1].type = "ID" /\ fs[1].name \in {N_plus, N_minus}
    THEN LET x == RefEval(Tail(fs))
             y == RefEval(x.rest)
         IN [ok |-> x.ok /\ y.ok,
             u |-> IF fs[1].name = N_plus THEN AddU(x.u, y.u) ELSE SubU(x.u, y.u),
             rest |-> y.rest]
  ELSE [ok |-> FALSE, u |-> <<0, 0>>, rest |-> <<>>]

\* the forms are one well-formed expression
IsArith(fs) == RefEval(fs).ok /\ RefEval(fs).rest = <<>>

Run ==
  IF phase = "eval"
    THEN Append(trace, [pc |-> op, depth |-> Len(vm.frames), val |-> NullVal])
    ELSE trace

\* the op at pc p, a placeholder outside the code
OpAt(p) == IF p >= 0 /\ p < Len(vm.ops) THEN vm.ops[p + 1] ELSE Op("NONE", NoForm)

\* the i-th op of the run was a BRANCH that popped a value
Branched(i) ==
  /\ i \in 1..Len(trace)
  /\ OpAt(trace[i].pc).code = "BRANCH"
  /\ trace[i].val.type # "NULL"

\* truthiness as the language defines it
Truthy(v) == IF v.type \in {"Int", "Bool"} THEN v.v # 0 ELSE TRUE

\* the steps after the i-th that belong to the same activation: at the same
\* depth, before the frame of the i-th step returns
Later(i) ==
  { j \in (i + 1)..Len(Run) :
      /\ Run[j].depth = trace[i].depth
      /\ \A k \in (i + 1)..j : Run[k].depth >= trace[i].depth }

\* The code of `if c t f` around its BRANCH at b: t is b+1 .. F-2, the JUMP
\* is at F-1, f is F .. E-1, with F the BRANCH's false_pc and E the JUMP's pc.
IfRuns(i, b, F, E) ==
  LET taken == IF Truthy(trace[i].val) THEN (b + 1)..(F - 1) ELSE F..(E - 1)
      other == IF Truthy(trace[i].val) THEN F..(E - 1) ELSE (b + 1)..(F - 1)
  IN /\ F > b + 1 /\ E >= F
     /\ OpAt(F - 1).code = "JUMP" /\ OpAt(F - 1).form = OpAt(b).form
     /\ i < Len(Run) => Run[i + 1].pc = IF Truthy(trace[i].val) THEN b + 1 ELSE F
     /\ \A j \in Later(i) :
          /\ Run[j].pc \notin other
          /\ (Run[j].pc \notin taken
              /\ \A k \in Later(i) : k < j => Run[k].pc \in taken)
               => Run[j].pc = E

IsConst(f, env) ==
  \/ f.type = "LIT"
  \/ /\ f.type = "ID" /\ drop_count(f.name) = 0 /\ Bound(env, f.name)
     /\ Lookup(env, f.name).type \in {"Int", "Bool", "Meta"}

ConstVal(f, env) == IF f.type = "LIT" THEN f.val ELSE Lookup(env, f.name)

\* the forms are `if c t f` with c, t, f literals or constants
IsIfConst(fs, env) ==
  /\ Len(fs) = 4
  /\ fs[1].type = "ID" /\ fs[1].name = N_if
  /\ \A i \in 2..4 : IsConst(fs[i], env)

RefOperand(fs) ==
  IF fs # <<>> /\ fs[1].type = "GROUP" /\ IsArith(fs[1].items)
    THEN [ok |-> TRUE, u |-> RefEval(fs[1].items).u, rest |-> Tail(fs)]
    ELSE RefEval(fs)

\* the forms are `= x y` with operands as above, not both of them literals
IsEqualTurn(fs) ==
  /\ Len(fs) >= 3
  /\ fs[1].type = "ID" /\ fs[1].name = N_equal
  /\ RefOperand(Tail(fs)).ok
  /\ RefOperand(RefOperand(Tail(fs)).rest).ok
  /\ RefOperand(RefOperand(Tail(fs)).rest).rest = <<>>
  /\ fs[2].type # "LIT" \/ fs[Len(fs)].type # "LIT"

\* C5: a turn `= x y;` where x or y is not a literal (a call such as
\* `+ 1 2`, or a group) runs EQUAL after the ops that compute the operand:
\* it ends EVAL_OK with the stack before the turn plus the Bool that says
\* whether the value of x equals the value of y.
C5_EqualAfterOperands ==
  (phase \in {"loop", "stopped"} /\ turn.emit = "EMIT_OK" /\ IsEqualTurn(turn.forms))
    => /\ turn.eval = "EVAL_OK"
       /\ TopStack(vm) =
            Append(StackBefore,
                   BoolVal(RefOperand(Tail(turn.forms)).u
                           = RefOperand(RefOperand(Tail(turn.forms)).rest).u))

IsFuncTurn(fs) ==
  /\ Len(fs) >= 5
  /\ fs[1].type = "ID" /\ fs[1].name = N_func
  /\ fs[2].type = "ID" /\ fs[3].type = "GROUP" /\ fs[4].type = "GROUP"

\* the definitions in the forms fs, groups included: the anonymous ones
\* (anon) or the named ones
RECURSIVE Definitions(_, _)
Definitions(fs, anon) ==
  IF fs = <<>> THEN 0
  ELSE (IF fs[1].type = "GROUP" THEN Definitions(fs[1].items, anon) ELSE 0)
       + (IF /\ Len(fs) >= 2 /\ fs[1].type = "ID" /\ fs[1].name = N_func
             /\ fs[2].type = "ID" /\ (fs[2].name = N_us) = anon
            THEN 1 ELSE 0)
       + Definitions(Tail(fs), anon)

\* emit_forms has compiled the forms of the turn, eval has not begun
JustCompiled == phase = "eval" /\ trace = <<>> /\ turn.emit = "EMIT_OK"

\* the function f is the one the turn's first form defines: its code begins
\* after the JUMP emitted first and ends with its RET, where the JUMP leads
IsDefined(f) ==
  /\ f.type = "Func" /\ f.v >= 0
  /\ FuncOf(vm, f.v).start_pc = start_pc + 1
  /\ OpAt(start_pc).code = "JUMP"
  /\ OpAt(OpAt(start_pc).pc - 1).code = "RET"
  /\ OpAt(OpAt(start_pc).pc - 1).func = f.v

\* what the first definition of the turn binds or pushes
DefinedAs(name) ==
  IF name # N_us
    THEN /\ ~Bound(turn.env, name) /\ Bound(vm.env, name)
         /\ IsDefined(Lookup(vm.env, name))
    ELSE /\ ~Bound(vm.env, name) \/ Lookup(vm.env, name) = Lookup(turn.env, name)
         /\ TopStack(vm) # <<>>
         /\ IsDefined(TopStack(vm)[Len(TopStack(vm))])

\* C7 (amended): after `func name args rets body` has compiled, a name other
\* than `_` is bound to a Func whose start_pc is the first op of the body,
\* and for `_` the function is on top of the operand stack instead; the
\* bindings grew by one for each named definition of the turn and the stack
\* by one Func for each anonymous definition of the turn, those inside the
\* body included, and by nothing else.
C7_Definition ==
  (JustCompiled /\ IsFuncTurn(turn.forms))
    => /\ DefinedAs(turn.forms[2].name)
       /\ Len(vm.env.items) = Len(turn.env.items) + Definitions(turn.forms, FALSE)
       /\ Len(TopStack(vm)) = Len(StackBefore) + Definitions(turn.forms, TRUE)
       /\ SubSeq(TopStack(vm), 1, Len(StackBefore)) = StackBefore
       /\ \A i \in (Len(StackBefore) + 1)..Len(TopStack(vm)) :
            TopStack(vm)[i].type = "Func"

\* C7, its case: a named definition compiled while the stack held a value
C7_Named ==
  /\ JustCompiled /\ IsFuncTurn(turn.forms)
  /\ turn.forms[2].name # N_us
  /\ StackBefore # <<>>

\* C7 as the claim has it: a named definition leaves the operand stack as it
\* was, whatever its body
C7_StackUnchanged ==
  (JustCompiled /\ IsFuncTurn(turn.forms))
    => /\ DefinedAs(turn.forms[2].name)
       /\ turn.forms[2].name # N_us => TopStack(vm) = StackBefore
       /\ turn.forms[2].name = N_us => vm.env = turn.env

\* the forms are func name (...) (...) name: the body is the name itself
IsRecursiveDef(fs) ==
  /\ IsFuncTurn(fs)
  /\ fs[2].name # N_us /\ drop_count(fs[2].name) = 0
  /\ fs[5].type = "ID" /\ fs[5].name = fs[2].name

\* C8: when the body of `func name ...` is the identifier name, the
\* definition compiles, and the body is a CALL of the function defined.
C8_Recursion ==
  (turn.emit # "none" /\ IsRecursiveDef(turn.forms))
    => /\ turn.emit = "EMIT_OK"
       /\ Bound(vm.env, turn.forms[2].name)
       /\ OpAt(start_pc + 1).code = "CALL"
       /\ OpAt(start_pc + 1).func = Lookup(vm.env, turn.forms[2].name).v

\* C9: a DROP of n on a stack of n values or more takes the n top values
\* off and goes on at the next op; on a smaller stack it ends eval with
\* EVAL_ERROR and the error "Not enough values" at the position of the op's
\* form, the stack as it was.
C9_Drop ==
  [][At("DROP")
       => IF Len(Stack) >= Cur.count
            THEN /\ phase' = "eval" /\ op' = op + 1
                 /\ vm'.states =
                      [vm.states EXCEPT ![Top].stack =
                         SubSeq(Stack, 1, Len(Stack) - Cur.count)]
            ELSE /\ phase' = "loop" /\ turn'.eval = "EVAL_ERROR"
                 /\ vm'.error = Error(Cur.form.pos, "Not enough values", <<>>, 0)
                 /\ vm'.states = vm.states]_vars

\* C9, its case: a DROP at the end of a turn has failed at the position of
\* its form with the value the turn pushed still on the stack, in a session
\* where an earlier turn had ended with one value on the stack
C9_NotEnough ==
  /\ TurnOver /\ turn.eval = "EVAL_ERROR"
  /\ vm.error = Error(turn.forms[Len(turn.forms)].pos, "Not enough values", <<>>, 0)
  /\ Len(Stack) = Len(StackBefore) + 1
  /\ \E i \in 1..Len(stdout) :
       stdout[i].kind = "stack" /\ Len(stdout[i].stack) = 1

\* the longest run of 'd' checked
MaxDrop == 3

\* the identifier form made of k letters 'd'
DropForm(k) == [Form("ID", Pos(0, k)) EXCEPT !.name = [i \in 1..k |-> 100]]

\* C10: in every state of the session, compiling the identifier made of k
\* letters 'd' gives EMIT_OK and appends one DROP of k to the code, nothing
\* else of the vm changes, and the same holds with no binding at all.
C10_DropRun ==
  vm.fault = NoFault =>
    \A k \in 1..MaxDrop :
      \A v \in {vm, [vm EXCEPT !.env = EmptyEnv]} :
        form_emit(DropForm(k), forms, v) =
          CRes("EMIT_OK", forms,
               [v EXCEPT !.ops =
                  Append(@, [Op("DROP", FormRef(DropForm(k))) EXCEPT !.count = k])])

\* C10, its case: `dd` compiled to a DROP of 2 in the turn that had bound
\* the name dd, which sorts before the name debug
C10_BoundName ==
  /\ JustCompiled
  /\ Bound(vm.env, N_dd) /\ Bound(vm.env, N_debug)
  /\ turn.forms[Len(turn.forms)].name = N_dd
  /\ OpAt(Len(vm.ops) - 2).code = "DROP"
  /\ OpAt(Len(vm.ops) - 2).count = 2
  /\ OpAt(Len(vm.ops) - 2).form = FormRef(turn.forms[Len(turn.forms)])

\* the forms are identifiers made of 'd' only
IsDrops(fs) ==
  /\ fs # <<>>
  /\ \A i \in 1..Len(fs) : fs[i].type = "ID" /\ drop_count(fs[i].name) > 0

\* the sum of the lengths of the names
RECURSIVE Letters(_)
Letters(fs) == IF fs = <<>> THEN 0 ELSE Len(fs[1].name) + Letters(Tail(fs))

\* the forms are k single 'd', k >= 2
IsSingles(fs) == IsDrops(fs) /\ Len(fs) >= 2 /\ Letters(fs) = Len(fs)

\* what a turn holding the one identifier of k 'd' makes of the stack s
RunOutcome(k, s) ==
  IF Len(s) >= k
    THEN [eval |-> "EVAL_OK", stack |-> SubSeq(s, 1, Len(s) - k)]
    ELSE [eval |-> "EVAL_ERROR", stack |-> s]

\* what the turn has made of the stack
Outcome == [eval |-> turn.eval, stack |-> TopStack(vm)]

\* C11 (amended): a turn holding the one identifier of k 'd' drops k values,
\* or fails and leaves the stack as it was; a turn holding k single 'd'
\* ends with the same OK or ERROR, and with the same stack when the stack
\* held k values or more, or none; when it held fewer than k the single 'd'
\* have dropped them all before the failure.
C11_RunAndSingles ==
  (TurnOver /\ turn.read = "READ_OK" /\ IsDrops(turn.forms))
    => /\ turn.emit = "EMIT_OK"
       /\ Len(turn.forms) = 1
            => Outcome = RunOutcome(Letters(turn.forms), StackBefore)
       /\ IsSingles(turn.forms)
            => /\ turn.eval = RunOutcome(Len(turn.forms), StackBefore).eval
               /\ TopStack(vm) =
                    IF Len(StackBefore) >= Len(turn.forms)
                      THEN RunOutcome(Len(turn.forms), StackBefore).stack
                      ELSE <<>>

\* C11, its case: k single 'd' have dropped the k values the stack held
C11_SinglesDropped ==
  /\ TurnOver /\ IsSingles(turn.forms)
  /\ Len(StackBefore) >= Len(turn.forms)
  /\ Outcome = RunOutcome(Len(turn.forms), StackBefore)
  /\ turn.eval = "EVAL_OK"

\* C11 as the claim has it: the turn of k single 'd' ends as the turn of
\* the one identifier of k 'd' does, whatever the stack
C11_SameOutcome ==
  (TurnOver /\ turn.read = "READ_OK" /\ IsSingles(turn.forms))
    => Outcome = RunOutcome(Len(turn.forms), StackBefore)

\* the macros by name, with their arities as main declares them
MacroNames == {<<N_equal, 2>>, <<N_func, 4>>, <<N_if, 3>>, <<N_us, 0>>}

\* the identifier form with the name given
NameForm(name, at) == [Form("ID", at) EXCEPT !.name = name]

\* form_emit on the macro m with the list in, too short for it, fails with
\* the error at the form, and nothing else changes
Missing(m, in, v) ==
  form_emit(NameForm(m[1], Pos(1, Len(in))), in, v) =
    CRes("EMIT_ERROR", in,
         [v EXCEPT !.error =
            Error(Pos(1, Len(in)), "Missing macro arguments", m[1], Len(in))])

\* C12: between the turns of the session, compiling a macro identifier with
\* a list that holds fewer forms than the macro's arity (here the first
\* forms of the last turn) gives EMIT_ERROR and the error "Missing macro arguments:
\* <name> <i>", i the number of forms in the list, at the position of the
\* macro's form; the list is as it was and no op is emitted.  A turn that
\* begins with such a macro ends so.
C12_MissingArguments ==
  vm.fault = NoFault =>
    /\ \A m \in MacroNames :
         \A j \in 0..(m[2] - 1) :
            (phase = "loop" /\ j <= Len(turn.forms))
              => Missing(m, SubSeq(turn.forms, 1, j), vm)
    /\ \A m \in MacroNames :
         (/\ turn.emit # "none" /\ turn.forms # <<>>
          /\ turn.forms[1].type = "ID" /\ turn.forms[1].name = m[1]
          /\ Len(turn.forms) - 1 < m[2])
           => /\ turn.emit = "EMIT_ERROR"
              /\ vm.error = Error(turn.forms[1].pos, "Missing macro arguments",
                                  m[1], Len(turn.forms) - 1)
              /\ pc_of(vm) = start_pc
              /\ forms = Tail(turn.forms)

\* C12, its case: the turn `if 0 T;` has failed with two forms found
C12_IfShort ==
  /\ TurnOver /\ turn.emit = "EMIT_ERROR"
  /\ turn.forms[1].name = N_if /\ Len(turn.forms) = 3
  /\ vm.error.msg = "Missing macro arguments" /\ vm.error.n = 2
  /\ stdout # <<>> /\ stdout[Len(stdout)] = [kind |-> "error", error |-> vm.error]

\* the last thing the program printed is its error buffer
ErrorPrinted ==
  stdout # <<>> /\ stdout[Len(stdout)] = [kind |-> "error", error |-> vm.error]

\* C13: a turn in which a stage returned ERROR has printed the error and
\* has run no later stage: after READ_ERROR it has neither compiled nor
\* evaluated, after EMIT_ERROR it has not evaluated, and after any of them
\* the error is the last thing printed, not a stack.
C13_ErrorEndsTurn ==
  TurnOver =>
    /\ turn.read = "READ_ERROR"
         => turn.emit = "none" /\ turn.eval = "none" /\ ErrorPrinted
    /\ turn.emit = "EMIT_ERROR" => turn.eval = "none" /\ ErrorPrinted
    /\ turn.eval = "EVAL_ERROR" => ErrorPrinted

\* texts that end inside a group: ( , (1 , (a b , ((1) , (( , (1 (2
OpenTexts ==
  { LP, LP \o D1, LP \o N_a \o SP \o N_f, LP \o LP \o D1 \o RP, LP \o LP,
    LP \o D1 \o SP \o LP \o D2 }

\* read_form at the position of main on the text t, after which the input
\* ends
ReadToEnd(t) == read_form(RState(Stream(t, TRUE), pos, form_count, vm.error), <<>>)

\* r is READ_ERROR with the error "Open group" at a `(` of the text t
IsOpenGroup(r, t) ==
  /\ r.R.fault = NoFault
  /\ r.res = "READ_ERROR"
  /\ r.R.error.msg = "Open group"
  /\ r.R.error.pos.line = pos.line
  /\ \E i \in 1..Len(t) :
       t[i] = 40 /\ r.R.error.pos.column = (pos.column + (i - 1)) % UINT16_MOD

\* C14: between the turns of the session, with room in the form arena,
\* reading a text that ends inside an open group gives READ_ERROR and the
\* error "Open group" at the position of an opening `(`.
C14_OpenGroup ==
  (phase = "loop" /\ vm.fault = NoFault /\ form_count < MAX_FORM_COUNT - MAX_NAME_LENGTH)
    => \A t \in OpenTexts : IsOpenGroup(ReadToEnd(t), t)

\* C15: once the end of the input has been met, the program has not
\* stopped on a failed assertion: it is on its way to the loop test of
\* main, which ends the loop.
C15_ExitAtEnd == stdin.eofind => vm.fault = NoFault /\ phase # "stopped"

\* the forms with every group replaced by the forms it holds
RECURSIVE Flat(_)
Flat(fs) ==
  IF fs = <<>> THEN <<>>
  ELSE IF fs[1].type = "GROUP" THEN Flat(fs[1].items) \o Flat(Tail(fs))
  ELSE <<fs[1]>> \o Flat(Tail(fs))

\* the forms are `= a b` with Int literals a, b
IsEqualLits(fs) ==
  /\ Len(fs) = 3
  /\ fs[1].type = "ID" /\ fs[1].name = N_equal
  /\ fs[2].type = "LIT" /\ fs[3].type = "LIT"

\* what the turn `if c t f` makes of the stack s
IfOutcome(fs, env, s) ==
  [eval |-> "EVAL_OK",
   stack |-> Append(s, IF Truthy(ConstVal(fs[2], env)) THEN ConstVal(fs[3], env)
                       ELSE ConstVal(fs[4], env))]

\* what the turn `= a b` makes of the stack s
EqualOutcome(fs, s) ==
  [eval |-> "EVAL_OK", stack |-> Append(s, BoolVal(fs[2].val.v = fs[3].val.v))]

\* C16: a turn that is `= a b` with literals or `if c t f` with literals or
\* constants once its groups are replaced by the forms they hold, ends as
\* the turn without the groups does.
C16_GroupsTransparent ==
  (phase \in {"loop", "stopped"} /\ turn.emit = "EMIT_OK")
    => /\ IsEqualLits(Flat(turn.forms))
            => Outcome = EqualOutcome(Flat(turn.forms), StackBefore)
       /\ IsIfConst(Flat(turn.forms), turn.env)
            => Outcome = IfOutcome(Flat(turn.forms), turn.env, StackBefore)

(***************************************************************************)
(* C17: the debug flag.  Flip is the vm with the flag the other way; the   *)
(* op eval stands at is run from both.                                     *)
(***************************************************************************)
Flip(v) == [v EXCEPT !.debug = ~@]
FlipOut(r) == IF r.to = "stop" THEN r ELSE [r EXCEPT !.vm = Flip(@)]
IsDebugCall == Cur.code = "CALL" /\ FuncOf(vm, Cur.func).body = "debug_body"
SameBothWays == eval_op(Flip(vm), op, Cur, Stack) = {FlipOut(r) : r \in Outcomes}

C18_DeadOps == (phase = "eval" /\ InRange) => op \notin dead

(***************************************************************************)
(* C19: the size of the operand stacks.                                    *)
(***************************************************************************)
\* C19: in every state of a session the operand stack of every live state
\* holds at most MAX_STACK_SIZE values, and no push went behind the array
C19_StackSize ==
  /\ \A k \in 1..Len(vm.states) : Len(vm.states[k].stack) <= MAX_STACK_SIZE
  /\ vm.fault # "ub push"

(***************************************************************************)
(* C20: the capacities.  The pools that are indexed with a count that no   *)
(* assert and no test guards: the operand stack (push), the forms          *)
(* (new_form), the functions (func_body), and the terminator of a name of  *)
(* MAX_NAME_LENGTH characters (read_id).                                   *)
(***************************************************************************)
Unguarded == {"ub push", "ub new_form", "ub func_body funcs", "ub read_id"}

\* C20: the program never goes on behind the end of a pool: a full pool
\* stops it on an assert before the slot is taken
C20_Capacities == vm.fault \notin Unguarded

(***************************************************************************)
(* C21, C22: the environment.  The names looked up and set: some bound     *)
(* from the start, some bound by a definition, some never bound.           *)
(***************************************************************************)
Probes == {N_T, N_if, N_minus, N_us, N_f, N_a, N_dd, N_foo, N_zz}

\* the lookup of the name n gives the slot of n if n is bound, and nothing,
\* with no failed assert, if it is not
LookupExact(env, n) ==
  LET exact(r) ==
        /\ r.fault = NoFault
        /\ IF Bound(env, n) THEN r.slot # 0 /\ env.items[r.slot].name = n
                            ELSE r.slot = 0
  IN exact(env_get(env, n))

\* C21: in every environment the session builds, the lookup of every name
\* returns the slot bound to exactly that name, or nothing when the name is
\* not bound; it never returns the slot of another name and never fails an
\* assertion
C21_LookupExact == \A n \in Probes : LookupExact(vm.env, n)

(***************************************************************************)
(* An environment on its own: env_init, then env_set of any of a few       *)
(* names in any order, names that are set already included.                *)
(***************************************************************************)
EnvNames == {N_d, N_dd, N_f, N_foo, N_equal, N_us}

EnvInit ==
  /\ vm = [main_init EXCEPT !.env = EmptyEnv]
  /\ form_count = 0
  /\ stdin = Stream(<<>>, FALSE)
  /\ pos = Pos(0, 0)
  /\ forms = <<>>
  /\ start_pc = 0
  /\ op = 0
  /\ phase = "env"
  /\ stdout = <<>>
  /\ typed = 0
  /\ turn = [before |-> <<>>, env |-> EmptyEnv, forms |-> <<>>, n |-> 0,
             read |-> "none", emit |-> "none", eval |-> "none"]
  /\ trace = <<>>
  /\ snap = <<>>
  /\ dead = {}
  /\ seen = {}

\* env_set(&env, n); `typed` counts the calls that returned NULL
EnvSet(n) ==
  /\ phase = "env"
  /\ \E r \in {env_set(vm.env, n)} :
        /\ vm' = [vm EXCEPT !.env = r.env, !.fault = r.fault]
        /\ typed' = IF r.slot = 0 /\ typed < 1 THEN typed + 1 ELSE typed
  /\ UNCHANGED <<form_count, stdin, pos, forms, start_pc, op, phase, stdout, turn,
                 trace, snap, dead, seen>>

EnvNext == \E n \in EnvNames : EnvSet(n)
SpecEnv == EnvInit /\ [][EnvNext]_vars

\* the names of the order list, in list order
OrderNames(env) == [k \in 1..Len(env.order) |-> env.items[env.order[k]].name]

\* C22: after any sequence of env_set calls the order list has item_count
\* entries, each a different item, with the names strictly ascending by
\* strcmp (so no name twice); and env_set of a name that is present returns
\* NULL and leaves the environment as it is
C22_OrderSorted ==
  /\ Len(vm.env.order) = Len(vm.env.items)
  /\ \A k \in 1..Len(vm.env.order) : vm.env.order[k] \in 1..Len(vm.env.items)
  /\ \A j, k \in 1..Len(vm.env.order) :
        j < k => strcmp(OrderNames(vm.env)[j], OrderNames(vm.env)[k]) < 0
  /\ \A n \in EnvNames \cup Probes :
        Bound(vm.env, n)
          => env_set(vm.env, n) = [env |-> vm.env, slot |-> 0, fault |-> NoFault]

\* C22 witness: four names were set, not in ascending order, and a name
\* that was present was set again
C22_SetTwice ==
  /\ phase = "env" /\ typed = 1
  /\ Len(vm.env.items) = 4
  /\ vm.env.order # <<1, 2, 3, 4>>

(***************************************************************************)
(* C23: EQUAL.                                                             *)
(***************************************************************************)
\* the number of operands of the EQUAL op e that are not inlined
Popped(e) ==
  (IF e.x.type = "NULL" THEN 1 ELSE 0) + (IF e.y.type = "NULL" THEN 1 ELSE 0)

\* the operands EQUAL compares: the inlined one, else y from the top of the
\* stack and x from below it
OperandY(e, st) == IF e.y.type = "NULL" THEN st[Len(st)] ELSE e.y
OperandX(e, st) ==
  IF e.x.type # "NULL" THEN e.x
  ELSE IF e.y.type = "NULL" THEN st[Len(st) - 1] ELSE st[Len(st)]

\* C23: an EQUAL that no assert stops takes each operand from the op when
\* it is inlined and else from the stack, y from the top and x from below
\* it, removes the operands it took from the stack and pushes one Bool, the
\* result of the equal method of x's type on (x, y) (for operands of one
\* type: whether their payloads are the same); the stack size changes by 1
\* minus the number of operands not inlined, and eval goes on at the next op
C23_EqualStep ==
  [][(At("EQUAL") /\ vm'.fault = NoFault)
       => /\ Len(Stack) >= Popped(Cur)
          /\ HasEqual(OperandX(Cur, Stack).type)
          /\ op' = op + 1
          /\ Len(vm'.states) = Len(vm.states)
          /\ Len(vm'.states[Top].stack) = Len(Stack) + 1 - Popped(Cur)
          /\ SubSeq(vm'.states[Top].stack, 1, Len(Stack) - Popped(Cur))
               = SubSeq(Stack, 1, Len(Stack) - Popped(Cur))
          /\ \E b \in val_equal(OperandX(Cur, Stack), OperandY(Cur, Stack)) :
                vm'.states[Top].stack[Len(Stack) + 1 - Popped(Cur)] = BoolVal(b)
          /\ OperandX(Cur, Stack).type = OperandY(Cur, Stack).type
               => vm'.states[Top].stack[Len(Stack) + 1 - Popped(Cur)]
                    = BoolVal(OperandX(Cur, Stack).v = OperandY(Cur, Stack).v)
    ]_vars

\* C23 witness: an EQUAL with no operand inlined has run on a stack of two
\* different values and pushed F
C23_BothPopped ==
  /\ phase = "eval" /\ trace # <<>>
  /\ OpAt(trace[Len(trace)].pc).code = "EQUAL"
  /\ Popped(OpAt(trace[Len(trace)].pc)) = 2
  /\ Stack = <<BoolVal(FALSE)>>

(***************************************************************************)
(* C24, C25: frames and states.                                            *)
(***************************************************************************)
IsUserCall == At("CALL") /\ FuncOf(vm, Cur.func).body = "__func_body"

C25_StateCount == Len(vm.states) = Len(vm.frames) + 1

\* C25 witness: a turn ended with EVAL_ERROR inside a function, whose frame
\* and state stay
C25_ErrorInCall ==
  /\ phase = "loop" /\ turn.eval = "EVAL_ERROR"
  /\ vm.frames # <<>>

(***************************************************************************)
(* C26: the targets of BRANCH and JUMP.                                    *)
(***************************************************************************)
HasTarget(k) == OpAt(k).code \in {"BRANCH", "JUMP"}

\* the target of the op at k is set and lies after k, at most at hi
TargetIn(k, hi) == OpAt(k).pc # NULL /\ k < OpAt(k).pc /\ OpAt(k).pc <= hi

\* C26 (amended): once emit_forms has returned EMIT_OK and main has emitted
\* the STOP, every BRANCH and JUMP of the turn's fragment has a target that
\* is set and points forward to an op of the fragment, the STOP at most; and
\* so has every BRANCH and JUMP in the store that no failed turn emitted
C26_Targets ==
  turn.emit = "EMIT_OK"
    => /\ OpAt(Len(vm.ops) - 1).code = "STOP"
       /\ \A k \in start_pc..(Len(vm.ops) - 1) :
             HasTarget(k) => TargetIn(k, Len(vm.ops) - 1)
       /\ \A k \in 0..(Len(vm.ops) - 1) :
             (HasTarget(k) /\ k \notin dead) => TargetIn(k, Len(vm.ops) - 1)

\* C26 witness: the turn compiled an if whose JUMP goes to the STOP
C26_JumpToStop ==
  /\ turn.emit = "EMIT_OK"
  /\ \E k \in start_pc..(Len(vm.ops) - 1) :
       /\ OpAt(k).code = "BRANCH" /\ OpAt(OpAt(k).pc - 1).code = "JUMP"
       /\ OpAt(OpAt(k).pc - 1).pc = Len(vm.ops) - 1

\* C26 as the spec states it: after every compile, failed ones included,
\* every BRANCH and JUMP in the store has a target that is set
C26_AllTargets ==
  turn.emit \in {"EMIT_OK", "EMIT_ERROR"}
    => \A k \in 0..(Len(vm.ops) - 1) : HasTarget(k) => OpAt(k).pc # NULL

(***************************************************************************)
(* C27: the forms of the ops.                                              *)
(***************************************************************************)
\* C27 (amended): every op in the store other than a STOP references a form
\* the reader made, whose position is the reader's position where the form
\* began; a STOP, which main emits, references no form
C27_OpForms ==
  \A k \in 0..(Len(vm.ops) - 1) :
    IF OpAt(k).code = "STOP" THEN OpAt(k).form = NoForm
    ELSE OpAt(k).form \in seen

\* C27 witness: the store holds the ops of two turns that compiled, a
\* function among them
C27_TwoFragments ==
  /\ \E j, k \in 0..(Len(vm.ops) - 1) :
       j < k /\ OpAt(j).code = "STOP" /\ OpAt(k).code = "STOP"
  /\ \E k \in 0..(Len(vm.ops) - 1) : OpAt(k).code = "RET"
  /\ \E k \in 0..(Len(vm.ops) - 1) : OpAt(k).form.pos.column > 0

\* C27 as the spec states it: every op, of every kind, references a form
\* that was read
C27_EveryOp == \A k \in 0..(Len(vm.ops) - 1) : OpAt(k).form \in seen

(***************************************************************************)
(* eval on its own, on a program the compiler does not produce: a run of   *)
(* NOPs and a STOP.  No macro emits a NOP, so the REPL never runs one.     *)
(***************************************************************************)
NopProgram(n) == [i \in 1..n |-> Op("NOP", NoForm)] \o <<Op("STOP", NoForm)>>

NopInit ==
  /\ \E n \in 0..MaxNops, st \in {<<>>, <<IntVal(1)>>} :
       vm = [main_init EXCEPT !.ops = NopProgram(n), !.states[1].stack = st]
  /\ form_count = 0
  /\ stdin = Stream(<<>>, FALSE)
  /\ pos = Pos(0, 0)
  /\ forms = <<>>
  /\ start_pc = 0
  /\ op = 0
  /\ phase = "eval"
  /\ stdout = <<>>
  /\ typed = 0
  /\ turn = [before |-> <<>>, env |-> EmptyEnv, forms |-> <<>>, n |-> 1,
             read |-> "READ_OK", emit |-> "EMIT_OK", eval |-> "none"]
  /\ trace = <<>>
  /\ snap = <<>>
  /\ dead = {}
  /\ seen = {}

\* the NOP handler, followed for MaxSteps ops
Nop ==
  /\ At("NOP")
  /\ Len(trace) < MaxSteps
  /\ trace' = Traced(NullVal)
  /\ \E r \in Outcomes : Take(r)

NopNext == Nop \/ Halt
SpecNop == NopInit /\ [][NopNext]_vars

\* C28: the NOP handler leaves eval at the first op after the run of NOPs,
\* an op that is not a NOP
C28_NopAdvances == [][At("NOP") => OpAt(op').code # "NOP"]_vars

(***************************************************************************)
(* C29: the store of ops.                                                  *)
(***************************************************************************)
\* the ops a are the first ops of b
IsPrefix(a, b) == Len(a) <= Len(b) /\ SubSeq(b, 1, Len(a)) = a

\* the forms are `= x y ...`
IsEqualForms(fs) == Len(fs) >= 3 /\ fs[1].type = "ID" /\ fs[1].name = N_equal

\* equal_body by its stages, on the forms fs = `= x y ...` and the vm v: the
\* vm with the EQUAL emitted, then after the operand x, then after y
EqualEmitted(v, fs) == emit(v, Op("EQUAL", FormRef(fs[1])))
EqualAfterX(v, fs) == equal_arg(pc_of(v), "x", Tail(fs), EqualEmitted(v, fs))
EqualAfterY(v, fs) ==
  equal_arg(pc_of(v), "y", EqualAfterX(v, fs).in, EqualAfterX(v, fs).vm)

\* the ops a and b are the same but for the slots x and y of the op at k
SameButOperands(a, b, k) ==
  /\ Len(a) = Len(b)
  /\ \A i \in 1..Len(a) :
        IF i = k + 1 THEN [a[i] EXCEPT !.x = NullVal, !.y = NullVal]
                            = [b[i] EXCEPT !.x = NullVal, !.y = NullVal]
        ELSE a[i] = b[i]

\* the ops a and b are the same but for the targets of BRANCH and JUMP ops
SameButTargets(a, b) ==
  /\ Len(a) = Len(b)
  /\ \A i \in 1..Len(a) :
        IF a[i].code \in {"BRANCH", "JUMP"} THEN [a[i] EXCEPT !.pc = NULL]
                                                  = [b[i] EXCEPT !.pc = NULL]
        ELSE a[i] = b[i]

\* the turn begins with `=` and its first operand compiles
EqualCompiles ==
  /\ phase = "emit" /\ IsEqualForms(forms)
  /\ EqualAfterX(vm, forms).res = "EMIT_OK"

NullTexts ==
  { N_minus \o N_a, N_minus \o SP \o D1, N_minus, N_minus \o N_minus, N_a \o SP,
    N_a \o LP, D1 \o SEMI, SEMI, Unit, RP, LP \o SP, D1 \o D2, SEMI \o SEMI }

\* texts that begin with a NUL byte: \0 , \01 , \0; , \0a
NulTexts == { NUL, NUL \o D1, NUL \o SEMI, NUL \o N_a }

\* the reader state of main before the text t, after which the input ends
Before(t) == RState(Stream(t, TRUE), pos, form_count, vm.error)

\* the sub-reader i (2: read_int, 3: read_semi, 4: read_group, 5: read_id) on
\* the text t
SubReader(i, t) ==
  CASE i = 2 -> read_int(Before(t), <<>>)
    [] i = 3 -> read_semi(Before(t), <<>>)
    [] i = 4 -> read_group(Before(t), <<>>)
    [] OTHER -> read_id(Before(t), <<>>)

\* if the sub-reader i returns READ_NULL on t, the characters to read, the
\* position and the list are what they were
NullRestores(i, t) ==
  LET same(r) ==
        (r.res = "READ_NULL" /\ r.R.fault = NoFault)
          => /\ r.R.in.buf = t
             /\ r.R.pos = pos
             /\ r.R.error = vm.error
             /\ r.R.form_count = form_count
             /\ r.out = <<>>
  IN same(SubReader(i, t))

\* the text `-` w ` ` is read as one identifier, the name `-` w
MinusIsId(w) ==
  LET id(r) ==
        /\ r.res = "READ_OK"
        /\ Len(r.out) = 1 /\ r.out[1].type = "ID" /\ r.out[1].name = N_minus \o w
        /\ r.out[1].pos = pos
        /\ r.R.in.buf = SP
  IN id(read_form(Before(N_minus \o w \o SP), <<>>))

\* C30 on the texts that do not begin with a NUL byte: a
\* sub-reader that returns READ_NULL leaves the characters to read and the
\* position as they were and appends no form; a `-` that no digit follows
\* is put back after the character that follows it, which takes a
\* character source that keeps two characters pushed back in a row, and is
\* then read as an identifier
C30_NullRestores ==
  (phase = "loop" /\ vm.fault = NoFault /\ form_count < MAX_FORM_COUNT)
    => /\ \A t \in NullTexts : \A i \in 2..5 : NullRestores(i, t)
       /\ read_int(Before(N_minus \o N_a), <<>>).res = "READ_NULL"
       /\ MinusIsId(<<>>) /\ MinusIsId(N_a)

\* C30 in a session: the turn read began with a `-` that no digit followed, and
\* it was read as the identifier `-`
C30_MinusRead ==
  /\ phase = "emit" /\ turn.read = "READ_OK"
  /\ Len(forms) >= 3
  /\ forms[1].type = "ID" /\ forms[1].name = N_minus
  /\ forms[2].type = "LIT"

\* C30 as the spec states it: a sub-reader that returns READ_NULL leaves
\* the characters to read as they were, on every text
C30_AlwaysRestores ==
  (phase = "loop" /\ vm.fault = NoFault /\ form_count < MAX_FORM_COUNT)
    => \A t \in NullTexts \cup NulTexts : \A i \in 2..5 : NullRestores(i, t)

(***************************************************************************)
(* A second session of the REPL: the same program, on lines that lead the  *)
(* compiler and eval to the ends of their lists and stacks.                *)
(***************************************************************************)
MoreLines ==
  { Line(<<LP \o D1 \o SEMI \o RP>>),                        \* (1;);
    Line(<<N_plus, D1>>),                                    \* + 1;
    Line(<<N_if, N_plus, D1, D2, D3>>),                      \* if + 1 2 3;
    Line(<<LP \o N_plus \o SP \o D1 \o RP, D2>>),            \* (+ 1) 2;
    Line(<<N_if, N_us, D1, D2>>),                            \* if _ 1 2;
    Line(<<N_plus, N_us, N_us>>),                            \* + _ _;
    Line(<<N_equal, N_us, N_us>>),                           \* = _ _;
    Line(<<N_func, N_T, Unit, Unit, D1>>),                   \* func T () () 1;
    Line(<<N_func, N_a, Unit, Unit, D1, N_a>>),              \* func a () () 1 a;
    Line(<<N_func, N_f, Unit, Unit, N_d, N_f>>),             \* func f () () d f;
    Line(<<N_func, N_us, Unit, Unit, D1, N_foo>>),           \* func _ () () 1 foo;
    Line(<<N_func, N_a, Unit, Unit, D1, N_foo>>),            \* func a () () 1 foo;
    Line(<<N_f>>),                                           \* f;
    Line(<<D1, D2>>)                                         \* 1 2;
  }

\* The user types one of these lines, while the program waits for input.
TypeMore ==
  /\ phase = "loop" /\ ~stdin.eofind /\ ~stdin.closed
  /\ ReadNow.R.in.blocked
  /\ typed < MaxLines
  /\ \E l \in MoreLines : stdin' = [stdin EXCEPT !.buf = @ \o l]
  /\ typed' = typed + 1
  /\ UNCHANGED <<vm, form_count, pos, forms, start_pc, op, phase, stdout, turn,
                 trace, snap, dead, seen>>

MoreNext == TypeMore \/ Close \/ ReadTurn \/ Emit \/ Eval

SpecMore == Init /\ [][MoreNext]_vars

\* the compile of the turn ended with the error "Semi emit"
SemiEmit == turn.emit = "EMIT_ERROR" /\ vm.error.msg = "Semi emit"

\* the types of the forms of the turn, groups' items included
TurnTypes == {f.type : f \in Made(turn.forms)}

\* C31 (amended): no Semicolon form is in the list main passes to the
\* compiler, since main removes the terminator and ends the turn's reads
\* there; a semicolon inside a group is read as an item of the group, and
\* the "Semi emit" error is raised exactly for the turns that hold one
C31_TopLevelSemi ==
  /\ phase = "emit" => \A i \in 1..Len(forms) : forms[i].type # "SEMI"
  /\ SemiEmit => "SEMI" \in TurnTypes
  /\ (turn.emit = "EMIT_OK" /\ turn.read = "READ_OK") => "SEMI" \notin TurnTypes

\* C31 witness: the turn `(1;);` was compiled and ended with "Semi emit"
C31_SemiInGroup ==
  /\ phase = "loop" /\ SemiEmit
  /\ Len(turn.forms) = 1 /\ turn.forms[1].type = "GROUP"
  /\ Len(turn.forms[1].items) = 2 /\ turn.forms[1].items[2].type = "SEMI"

\* C31 as the spec states it: no Semicolon form reaches the compiler, in a
\* group or outside, and "Semi emit" is never raised
C31_SemiUnreachable ==
  /\ phase = "emit" => \A f \in Made(forms) : f.type # "SEMI"
  /\ ~SemiEmit

\* C32: the compiler never detaches a form from an empty list; in the
\* model, no compile stops at ls_del(in->next) on a list that is empty
C32_NeverDetachesEmpty == vm.fault # "ub ls_del"

\* the turn whose compile stopped there began with the identifier `name`
\* and had n forms
DetachedIn(name, n) ==
  /\ vm.fault = "ub ls_del" /\ Len(turn.forms) = n
  /\ turn.forms[1].type = "ID" /\ turn.forms[1].name = name

\* the turn whose compile stopped there began with a group
DetachedInGroup == vm.fault = "ub ls_del" /\ turn.forms[1].type = "GROUP"

\* C33: stack underflow during evaluation is never a failed assertion; in
\* the model, eval never stops at the assert of pop
C33_NoUnderflowAssert == vm.fault # "assert pop"

\* the assert of pop failed at the op `code`, in a turn of n forms that
\* began on an empty stack
UnderflowAt(code, n) ==
  /\ vm.fault = "assert pop" /\ InRange /\ Cur.code = code
  /\ Len(turn.forms) = n /\ StackBefore = <<>> /\ Len(vm.frames) = 0

\* C34: defining a name never writes through a missing slot; in the model,
\* bind_init never stops at the write through the NULL that env_set returns
\* for a name that is bound
C34_NoMissingSlot == vm.fault # "segv bind_init"

\* the write through NULL happened in a turn that gave `func` the name n,
\* bound when the turn began
MissingSlotFor(n) ==
  /\ vm.fault = "segv bind_init"
  /\ Len(turn.forms) >= 2 /\ turn.forms[2].name = n
  /\ \E i \in 1..Len(turn.env.items) : turn.env.items[i].name = n

\* C35: at the start of every turn of the REPL frame_count is 0 and the
\* current state is the one main pushed, also after a turn that ended with
\* an error raised inside a function body
C35_TurnBaseline ==
  phase = "loop" => Len(vm.frames) = 0 /\ Len(vm.states) = 1

\* a turn ended with EVAL_ERROR in a called function, and the turn after it
\* begins in the state of that call
BeginsInCall ==
  /\ phase = "loop" /\ turn.eval = "EVAL_ERROR"
  /\ Len(vm.frames) = 1 /\ Len(vm.states) = 2
  /\ vm.error.msg = "Not enough values"

\* C36: a turn whose compilation fails changes neither the bindings of the
\* scope nor the operand stack
C36_FailedCompile ==
  (phase = "loop" /\ turn.emit = "EMIT_ERROR")
    => vm.env = turn.env /\ vm.states = turn.before

\* a turn whose compilation failed left the binding of a function behind
BindingLeft ==
  /\ phase = "loop" /\ turn.emit = "EMIT_ERROR"
  /\ ~Bound(turn.env, N_a) /\ Bound(vm.env, N_a)
  /\ vm.states = turn.before

\* a turn whose compilation failed left a function on the operand stack
ValueLeft ==
  /\ phase = "loop" /\ turn.emit = "EMIT_ERROR"
  /\ vm.env = turn.env
  /\ Len(Stack) = Len(StackBefore) + 1 /\ Stack[Len(Stack)].type = "Func"

(***************************************************************************)
(* C37: the parts of the claim, each on the op eval stands at.             *)
(***************************************************************************)
\* the BRANCH or JUMP eval stands at has a later op as its target
ForwardTarget ==
  (At("BRANCH") \/ At("JUMP")) => Cur.pc > op /\ Cur.pc < Len(vm.ops)

\* the CALL eval stands at calls a built-in, or a function whose body, from
\* start_pc to its RET, lies before the CALL
BodyBefore ==
  (At("CALL") /\ FuncOf(vm, Cur.func).body = "__func_body")
    => \E k \in 0..(op - 1) :
          /\ FuncOf(vm, Cur.func).start_pc <= k
          /\ vm.ops[k + 1].code = "RET" /\ vm.ops[k + 1].func = Cur.func

\* eval leaves every op it dispatches: with the steps of eval taken as long
\* as one is enabled, no turn stays in eval
FairMore == SpecMore /\ WF_vars(Eval)
EvalEnds == (phase = "eval") ~> (phase # "eval")

\* C37: evaluation terminates, BRANCH and JUMP go forward, a CALL follows
\* the body it calls, and the call depth, the number of live frames, never
\* exceeds the number of functions defined
C37_DepthBounded ==
  /\ ForwardTarget
  /\ BodyBefore
  /\ Len(vm.frames) <= Len(vm.funcs)

\* a second failed call of the only function defined: two live frames
TwoFramesOneFunc == Len(vm.frames) = 2 /\ Len(vm.funcs) = 1

(***************************************************************************)
(* C38: the REPL on lines with a `)` that closes no group, followed for    *)
(* MaxTurns turns.                                                         *)
(***************************************************************************)
StrayLines ==
  { Line(<<RP>>),                                            \* );
    Line(<<D1, RP>>),                                        \* 1 );
    Line(<<RP, D1>>),                                        \* ) 1;
    Line(<<D1>>)                                             \* 1;
  }

\* The user types one of these lines, while the program waits for input.
TypeStray ==
  /\ phase = "loop" /\ ~stdin.eofind /\ ~stdin.closed
  /\ ReadNow.R.in.blocked
  /\ typed < MaxLines
  /\ \E l \in StrayLines : stdin' = [stdin EXCEPT !.buf = @ \o l]
  /\ typed' = typed + 1
  /\ UNCHANGED <<vm, form_count, pos, forms, start_pc, op, phase, stdout, turn,
                 trace, snap, dead, seen>>

\* the head of the loop, for the first MaxTurns turns
StrayTurn == turn.n < MaxTurns /\ ReadTurn

StrayNext == TypeStray \/ StrayTurn \/ Emit \/ Push \/ Halt

SpecStray == Init /\ [][StrayNext]_vars

\* C38: every turn consumes at least one character of the input or ends
\* the loop
C38_TurnConsumes ==
  [][(phase = "loop" /\ phase' # "loop")
       => (Len(stdin'.buf) < Len(stdin.buf) \/ phase' = "stopped")]_vars

\* the REPL has run turns on the `)` at the head of the input, which is
\* still there: each turn compiled nothing but its STOP
TurnsOnStray ==
  /\ phase = "loop" /\ turn.n >= 3
  /\ stdin.buf # <<>> /\ Head(stdin.buf) = RP[1]
  /\ Len(vm.ops) >= 3
  /\ \A k \in (Len(vm.ops) - 2)..Len(vm.ops) : vm.ops[k].code = "STOP"

\* C39: after vm_init every pool counter has its initial value: before the
\* first turn form_count is 0, and vm_init leaves no function, op, state or
\* frame (main then pushes the first state)
C39_CountersDefined ==
  turn.n = 0
    => /\ form_count = 0
       /\ Len(vm_init.funcs) = 0 /\ Len(vm_init.ops) = 0
       /\ Len(vm_init.states) = 0 /\ Len(vm_init.frames) = 0
       /\ Len(vm.states) = 1

\* the first form of the session was allocated behind the pool
FirstFormOutside ==
  /\ turn.n = 1 /\ vm.fault = "ub new_form" /\ form_count >= MAX_FORM_COUNT

====
